---- MODULE Spec2Model ----
(***************************************************************************)
(* Route-progress model and position-sample cache of the FlightCalculator  *)
(* component (src/src/components/FlightCalculator.tsx).                    *)
(*                                                                         *)
(* JavaScript numbers are modelled as exact rationals extended with NaN,   *)
(* +Infinity and -Infinity: every operator below follows the IEEE-754      *)
(* rules for the special values (x/0, Infinity*0, comparisons with NaN),   *)
(* and is exact on finite values.  Rounding of the 53-bit mantissa is not  *)
(* modelled.  Strings are sequences of one-character strings.              *)
(***************************************************************************)
EXTENDS Integers, Sequences, FiniteSets, Bags, TLC

VARIABLES waypoints, depTime, duration, percentage, progress,
          cachedPositions, sliderValue, routeProgress, pc,
          query, closest,
          departureTime, arrivalTime, timezones,
          flightData, lastKnownPosition, aircraftPosition, lastDrawTime,
          lastApiCall, clock, interpolated,
          geodesy,
          autoRefreshIntervalRef, intervals, fetches, error, loading,
          trackingAllAircraft

\* The argument and the outcome of a call of findClosestPosition
closestVars == <<query, closest>>

\* The two time inputs, and the timezone records of the plan's two airports
editVars == <<departureTime, arrivalTime, timezones>>

\* The state of the FlightTracker component, the clock, and the arguments
\* and result of a call of calculateInterpolatedPosition
trackerVars == <<flightData, lastKnownPosition, aircraftPosition, lastDrawTime,
                 lastApiCall, clock, interpolated>>

\* The call made to a function of the geodesy kernel, with its result
geodesyVars == <<geodesy>>

\* The auto-refresh of the FlightTracker: the interval held in the ref, the
\* intervals that are set and not cleared, the calls of trackFlight and
\* getAllAircraft that await their fetch, and the error, loading and
\* trackingAllAircraft states
refreshVars == <<autoRefreshIntervalRef, intervals, fetches, error, loading,
                 trackingAllAircraft>>

vars == <<waypoints, depTime, duration, percentage, progress,
          cachedPositions, sliderValue, routeProgress, pc, closestVars, editVars,
          trackerVars, geodesyVars, refreshVars>>

\* No auto-refresh is set and no call is in flight
RefreshInit ==
    /\ autoRefreshIntervalRef = <<>>
    /\ intervals = {}
    /\ fetches = <<>>
    /\ error = ""
    /\ loading = FALSE
    /\ trackingAllAircraft = FALSE

\* The FlightTracker before any flight is tracked
TrackerInit ==
    /\ flightData = <<>>
    /\ lastKnownPosition = <<>>
    /\ aircraftPosition = <<>>
    /\ lastDrawTime = <<>>
    /\ lastApiCall = <<>>
    /\ clock = 0
    /\ interpolated = <<>>

(***************************************************************************)
(* Bounds of the model.                                                    *)
(***************************************************************************)
MaxWaypoints == 3
MaxHours == 2
MaxSamples == 4
MaxTicks == 1

(***************************************************************************)
(* JavaScript numbers.  A finite number is n/d * 10^e in a unique normal   *)
(* form: d > 0 is coprime to n and to 10, and n is not a multiple of 10.   *)
(***************************************************************************)
NaN == [k |-> "nan", n |-> 0, d |-> 1, e |-> 0]
Infinity == [k |-> "inf", n |-> 1, d |-> 1, e |-> 0]
NegInfinity == [k |-> "inf", n |-> -1, d |-> 1, e |-> 0]

Abs(i) == IF i < 0 THEN -i ELSE i
Min(S) == CHOOSE x \in S : \A y \in S : x <= y
Max(S) == CHOOSE x \in S : \A y \in S : x >= y

RECURSIVE GCD(_, _)
GCD(a, b) == IF b = 0 THEN a ELSE GCD(b, a % b)

RECURSIVE Pow(_, _)
Pow(b, x) == IF x = 0 THEN 1 ELSE b * Pow(b, x - 1)

\* The number of times p divides x (x > 0)
RECURSIVE Multiplicity(_, _)
Multiplicity(p, x) == IF x % p = 0 THEN 1 + Multiplicity(p, x \div p) ELSE 0

\* The finite number n/d * 10^e (d # 0), in normal form
Fin(n, d, e) ==
    LET g == GCD(Abs(n), Abs(d))
        n1 == (IF d < 0 THEN -1 ELSE 1) * (n \div g)
        d1 == Abs(d) \div g
        a == Multiplicity(2, d1)
        b == Multiplicity(5, d1)
        m == Max({a, b})
        n2 == n1 * Pow(2, m - a) * Pow(5, m - b)
        d2 == d1 \div (Pow(2, a) * Pow(5, b))
        z == Multiplicity(10, Abs(n2))
    IN  IF n = 0 THEN [k |-> "fin", n |-> 0, d |-> 1, e |-> 0]
        ELSE [k |-> "fin", n |-> n2 \div Pow(10, z), d |-> d2, e |-> e - m + z]

Rat(n, d) == Fin(n, d, 0)
Num(i) == Fin(i, 1, 0)

IsNaN(a) == a.k = "nan"
IsFinite(a) == a.k = "fin"
IsInf(a) == a.k = "inf"
Sgn(a) == IF a.n > 0 THEN 1 ELSE IF a.n < 0 THEN -1 ELSE 0
SignedInf(s) == IF s > 0 THEN Infinity ELSE NegInfinity

Neg(a) == [a EXCEPT !.n = -a.n]

\* a + b
Add(a, b) ==
    IF IsNaN(a) \/ IsNaN(b) THEN NaN
    ELSE IF IsInf(a) /\ IsInf(b) THEN (IF a.n = b.n THEN a ELSE NaN)
    ELSE IF IsInf(a) THEN a
    ELSE IF IsInf(b) THEN b
    ELSE IF a.n = 0 THEN b
    ELSE IF b.n = 0 THEN a
    ELSE LET e == Min({a.e, b.e})
             an == a.n * Pow(10, a.e - e)
             bn == b.n * Pow(10, b.e - e)
             g == GCD(a.d, b.d)
         IN  Fin(an * (b.d \div g) + bn * (a.d \div g), (a.d \div g) * b.d, e)

\* a - b
Sub(a, b) == Add(a, Neg(b))

\* a * b
Mul(a, b) ==
    IF IsNaN(a) \/ IsNaN(b) THEN NaN
    ELSE IF IsInf(a) \/ IsInf(b)
         THEN (IF Sgn(a) = 0 \/ Sgn(b) = 0 THEN NaN ELSE SignedInf(Sgn(a) * Sgn(b)))
    ELSE LET g1 == GCD(Abs(a.n), b.d)
             g2 == GCD(Abs(b.n), a.d)
         IN  Fin((a.n \div g1) * (b.n \div g2), (a.d \div g2) * (b.d \div g1), a.e + b.e)

\* Div with every division by zero giving NaN
DivZeroIsNaN(a, b) ==
    IF IsNaN(a) \/ IsNaN(b) THEN NaN
    ELSE IF IsInf(a) THEN (IF IsInf(b) THEN NaN
                           ELSE SignedInf(a.n * (IF b.n < 0 THEN -1 ELSE 1)))
    ELSE IF IsInf(b) THEN Num(0)
    ELSE IF b.n = 0 THEN NaN
    ELSE Mul(a, Fin(b.d, b.n, -b.e))

\* a / b; a zero divisor is +0
Div(a, b) ==
    IF IsNaN(a) \/ IsNaN(b) THEN NaN
    ELSE IF IsInf(a) THEN (IF IsInf(b) THEN NaN
                           ELSE SignedInf(a.n * (IF b.n < 0 THEN -1 ELSE 1)))
    ELSE IF IsInf(b) THEN Num(0)
    ELSE IF b.n = 0 THEN (IF a.n = 0 THEN NaN ELSE SignedInf(a.n))
    ELSE Mul(a, Fin(b.d, b.n, -b.e))

\* a < b, a <= b, a > b, a >= b, a === b: all false when an operand is NaN
Lt(a, b) ==
    /\ ~IsNaN(a) /\ ~IsNaN(b)
    /\ IF IsInf(a) THEN a.n < 0 /\ b # a
       ELSE IF IsInf(b) THEN b.n > 0
       ELSE Sub(a, b).n < 0
NumEq(a, b) == ~IsNaN(a) /\ ~IsNaN(b) /\ a = b
Le(a, b) == Lt(a, b) \/ NumEq(a, b)
Gt(a, b) == Lt(b, a)
Ge(a, b) == Le(b, a)

\* floor(n * 10^e / d) for e >= 0, by long division
RECURSIVE FloorScaled(_, _, _)
FloorScaled(n, d, e) ==
    IF e = 0 THEN n \div d
    ELSE (n \div d) * Pow(10, e) + FloorScaled((n % d) * 10, d, e - 1)

\* Math.floor, Math.ceil and truncation toward zero
Floor(a) ==
    IF ~IsFinite(a) THEN a
    ELSE IF a.e >= 0 THEN Num(FloorScaled(a.n, a.d, a.e))
    ELSE Num(a.n \div (a.d * Pow(10, -a.e)))
Ceil(a) == Neg(Floor(Neg(a)))
Trunc(a) == IF Lt(a, Num(0)) THEN Ceil(a) ELSE Floor(a)

IsInteger(a) == IsFinite(a) /\ a.d = 1 /\ a.e >= 0
\* The integer an integral number denotes
IntValue(a) == a.n * Pow(10, a.e)

\* a % b (the remainder has the sign of a) and Math.round (halves go up)
Rem(a, b) == Sub(a, Mul(b, Trunc(Div(a, b))))
MathRound(a) == Floor(Add(a, Rat(1, 2)))

(***************************************************************************)
(* Strings: String.prototype.split / replace, parseInt, template literals. *)
(***************************************************************************)
Digits == <<"0", "1", "2", "3", "4", "5", "6", "7", "8", "9">>
IsDigit(c) == \E i \in 1..10 : Digits[i] = c
DigitVal(c) == (CHOOSE i \in 1..10 : Digits[i] = c) - 1
IsWhiteSpace(c) == c = " "

\* 1-based position of the first occurrence of pat in s at or after from; 0 if none
IndexOf(s, pat, from) ==
    LET hits == {j \in from..(Len(s) - Len(pat) + 1) : SubSeq(s, j, j + Len(pat) - 1) = pat}
    IN  IF hits = {} THEN 0 ELSE Min(hits)

\* s.split(sep) for a non-empty separator
RECURSIVE Split(_, _)
Split(s, sep) ==
    LET i == IndexOf(s, sep, 1)
    IN  IF i = 0 THEN <<s>>
        ELSE <<SubSeq(s, 1, i - 1)>> \o Split(SubSeq(s, i + Len(sep), Len(s)), sep)

\* s.replace(pat, rep) with a string pattern: only the first occurrence
ReplaceFirst(s, pat, rep) ==
    LET i == IndexOf(s, pat, 1)
    IN  IF i = 0 THEN s
        ELSE SubSeq(s, 1, i - 1) \o rep \o SubSeq(s, i + Len(pat), Len(s))

RECURSIVE DigitsValue(_, _)
DigitsValue(s, acc) ==
    IF s = <<>> THEN acc ELSE DigitsValue(Tail(s), acc * 10 + DigitVal(Head(s)))

\* parseInt(s) in radix 10: leading white space, an optional sign, then the
\* longest prefix of digits; NaN when that prefix is empty
parseInt(s) ==
    LET nonws == {j \in 1..Len(s) : ~IsWhiteSpace(s[j])}
        t == IF nonws = {} THEN <<>> ELSE SubSeq(s, Min(nonws), Len(s))
        signed == t # <<>> /\ Head(t) \in {"-", "+"}
        sign == IF signed /\ Head(t) = "-" THEN -1 ELSE 1
        u == IF signed THEN Tail(t) ELSE t
        stops == {j \in 1..Len(u) : ~IsDigit(u[j])}
        len == IF stops = {} THEN Len(u) ELSE Min(stops) - 1
    IN  IF len = 0 THEN NaN ELSE Num(sign * DigitsValue(SubSeq(u, 1, len), 0))

RECURSIVE NatToString(_)
NatToString(i) ==
    IF i < 10 THEN <<Digits[i + 1]>> ELSE NatToString(i \div 10) \o <<Digits[(i % 10) + 1]>>

\* String(x) as a template literal inserts it, for the integral and special values
NumberToString(a) ==
    IF IsNaN(a) THEN <<"N", "a", "N">>
    ELSE IF IsInf(a) THEN (IF a.n < 0 THEN <<"-">> ELSE <<>>)
                          \o <<"I", "n", "f", "i", "n", "i", "t", "y">>
    ELSE (IF a.n < 0 THEN <<"-">> ELSE <<>>) \o NatToString(Abs(IntValue(a)))

formatDuration(hours, minutes) ==
    NumberToString(hours) \o <<"h", " ">> \o NumberToString(minutes) \o <<"m">>

\* const [hours, minutes] = duration.split('h ').map(part => parseInt(part.replace('m', '')))
\* a missing second element is undefined, which arithmetic turns into NaN
parseDuration(dur) ==
    LET parts == Split(dur, <<"h", " ">>)
        nums == [i \in 1..Len(parts) |-> parseInt(ReplaceFirst(parts[i], <<"m">>, <<>>))]
    IN  [hours |-> nums[1], minutes |-> IF Len(nums) >= 2 THEN nums[2] ELSE NaN]

(***************************************************************************)
(* Dates.  A datetime-local string is <<m>>, the m-th minute of the epoch, *)
(* <<m, s>> when it carries seconds, or <<>> for the empty input; a Date   *)
(* is its time value in milliseconds, NaN for an Invalid Date.             *)
(***************************************************************************)
\* new Date(string)
DateFromString(s) ==
    IF s = <<>> THEN NaN
    ELSE Num(s[1] * 60000 + (IF Len(s) >= 2 THEN s[2] * 1000 ELSE 0))

\* new Date(number): TimeClip drops the fraction of a millisecond
DateFromNumber(x) == IF IsFinite(x) THEN Trunc(x) ELSE NaN

\* Date.prototype.toLocaleTimeString, rendered as a 24-hour UTC clock
toLocaleTimeString(t) ==
    IF ~IsFinite(t) THEN [valid |-> FALSE, h |-> 0, m |-> 0, s |-> 0]
    ELSE LET sec == (IntValue(t) \div 1000) % 86400
         IN  [valid |-> TRUE, h |-> sec \div 3600, m |-> (sec % 3600) \div 60, s |-> sec % 60]

(***************************************************************************)
(* calculateRoutePosition.                                                 *)
(***************************************************************************)
taxiTime == 10 * 60 * 1000

\* waypoints[i] for a number i: undefined (<<>>) unless i is an index of the array
ArrayGet(arr, i) ==
    IF IsInteger(i) /\ i.n >= 0 /\ IntValue(i) < Len(arr) THEN <<arr[IntValue(i) + 1]>> ELSE <<>>

\* F applied to the value of v, with v evaluated once (a const declaration)
Const(v, F(_)) == CHOOSE y \in {F(x) : x \in {v}} : TRUE

totalDurationMs(dur) ==
    Const(parseDuration(dur),
          LAMBDA d : Add(Mul(d.hours, Num(3600000)), Mul(d.minutes, Num(60000))))

taxiPercentage(total) == Mul(Div(Num(taxiTime), total), Num(100))

\* adjustedPercentage whose taxi-out branch leaves the percentage as it is
adjustedPercentageTaxiOutMoves(pct, total) ==
    Const(taxiPercentage(total), LAMBDA taxi :
        IF Le(pct, taxi) THEN pct
        ELSE IF Ge(pct, Sub(Num(100), taxi)) THEN Num(100)
        ELSE LET flightRange == Sub(Num(100), Mul(Num(2), taxi))
             IN  Mul(Div(Sub(pct, taxi), flightRange), Num(100)))

\* adjustedPercentage whose taxi-in branch repeats the taxi-out assignment
adjustedPercentageTaxiInZero(pct, total) ==
    Const(taxiPercentage(total), LAMBDA taxi :
        IF Le(pct, taxi) THEN Num(0)
        ELSE IF Ge(pct, Sub(Num(100), taxi)) THEN Num(0)
        ELSE LET flightRange == Sub(Num(100), Mul(Num(2), taxi))
             IN  Mul(Div(Sub(pct, taxi), flightRange), Num(100)))

\* adjustedPercentage whose flight range removes one taxi phase only
adjustedPercentageSingleTaxi(pct, total) ==
    Const(taxiPercentage(total), LAMBDA taxi :
        IF Le(pct, taxi) THEN Num(0)
        ELSE IF Ge(pct, Sub(Num(100), taxi)) THEN Num(100)
        ELSE LET flightRange == Sub(Num(100), taxi)
             IN  Mul(Div(Sub(pct, taxi), flightRange), Num(100)))

\* adjustedPercentage whose flight branch counts down from the taxi-in phase
adjustedPercentageCountsDown(pct, total) ==
    Const(taxiPercentage(total), LAMBDA taxi :
        IF Le(pct, taxi) THEN Num(0)
        ELSE IF Ge(pct, Sub(Num(100), taxi)) THEN Num(100)
        ELSE LET flightRange == Sub(Num(100), Mul(Num(2), taxi))
             IN  Mul(Div(Sub(Sub(Num(100), taxi), pct), flightRange), Num(100)))

adjustedPercentage(pct, total) ==
    Const(taxiPercentage(total), LAMBDA taxi :
        IF Le(pct, taxi) THEN Num(0)
        ELSE IF Ge(pct, Sub(Num(100), taxi)) THEN Num(100)
        ELSE LET flightRange == Sub(Num(100), Mul(Num(2), taxi))
             IN  Mul(Div(Sub(pct, taxi), flightRange), Num(100)))

\* start + (end - start) * segmentProgress on both coordinates; <<>> when
\* start or end is undefined and reading its .lat throws
interpolate(start, end, segmentProgress) ==
    IF start = <<>> \/ end = <<>> THEN <<>>
    ELSE <<<<Add(start[1].lat, Mul(Sub(end[1].lat, start[1].lat), segmentProgress)),
             Add(start[1].lon, Mul(Sub(end[1].lon, start[1].lon), segmentProgress))>>>>

\* routePosition whose final clamp reads the waypoint before the last
routePositionLastOffByOne(wps, adjusted) ==
    LET totalSegments == Len(wps) - 1
    IN  IF Ge(adjusted, Num(100))
        THEN <<<<wps[totalSegments].lat, wps[totalSegments].lon>>>>
        ELSE IF Le(adjusted, Num(0))
        THEN <<<<wps[1].lat, wps[1].lon>>>>
        ELSE Const(Div(Mul(adjusted, Num(totalSegments)), Num(100)), LAMBDA segmentPercentage :
             Const(Floor(segmentPercentage), LAMBDA currentSegment :
                 interpolate(ArrayGet(wps, currentSegment),
                             ArrayGet(wps, Add(currentSegment, Num(1))),
                             Sub(segmentPercentage, currentSegment))))

\* The position along the route for an adjusted percentage; <<>> on a throw
routePosition(wps, adjusted) ==
    LET totalSegments == Len(wps) - 1
    IN  IF Ge(adjusted, Num(100))
        THEN <<<<wps[totalSegments + 1].lat, wps[totalSegments + 1].lon>>>>
        ELSE IF Le(adjusted, Num(0))
        THEN <<<<wps[1].lat, wps[1].lon>>>>
        ELSE Const(Div(Mul(adjusted, Num(totalSegments)), Num(100)), LAMBDA segmentPercentage :
             Const(Floor(segmentPercentage), LAMBDA currentSegment :
                 interpolate(ArrayGet(wps, currentSegment),
                             ArrayGet(wps, Add(currentSegment, Num(1))),
                             Sub(segmentPercentage, currentSegment))))

\* const segmentPercentage = (adjustedPercentage * totalSegments) / 100 with
\* currentSegment = Math.floor(segmentPercentage) and segmentProgress =
\* segmentPercentage - currentSegment
segmentPosition(wps, adjusted) ==
    Const(Div(Mul(adjusted, Num(Len(wps) - 1)), Num(100)), LAMBDA segmentPercentage :
        [currentSegment |-> Floor(segmentPercentage),
         segmentProgress |-> Sub(segmentPercentage, Floor(segmentPercentage))])

\* waypointReads whose final clamp leaves out adjustedPercentage = 100
waypointReadsClampAbove(wps, adjusted) ==
    LET totalSegments == Len(wps) - 1
    IN  IF Gt(adjusted, Num(100)) THEN {Num(totalSegments)}
        ELSE IF Le(adjusted, Num(0)) THEN {Num(0)}
        ELSE Const(Floor(Div(Mul(adjusted, Num(totalSegments)), Num(100))),
                   LAMBDA currentSegment : {currentSegment, Add(currentSegment, Num(1))})

\* The indices i of the reads waypoints[i] made for an adjusted percentage
waypointReads(wps, adjusted) ==
    LET totalSegments == Len(wps) - 1
    IN  IF Ge(adjusted, Num(100)) THEN {Num(totalSegments)}
        ELSE IF Le(adjusted, Num(0)) THEN {Num(0)}
        ELSE Const(Floor(Div(Mul(adjusted, Num(totalSegments)), Num(100))),
                   LAMBDA currentSegment : {currentSegment, Add(currentSegment, Num(1))})

\* routeTime that elapses flightDurationMs instead of totalDurationMs
routeTimeFlightOnly(pct, dep, total) ==
    LET startTime == DateFromString(dep)
        flightDurationMs == Sub(total, Num(taxiTime * 2))
        elapsedMs == Div(Mul(flightDurationMs, pct), Num(100))
    IN  DateFromNumber(Add(startTime, elapsedMs))

\* The wall-clock time of the query
routeTime(pct, dep, total) ==
    LET startTime == DateFromString(dep)
        elapsedMs == Div(Mul(total, pct), Num(100))
    IN  DateFromNumber(Add(startTime, elapsedMs))

\* calculateRoutePosition whose degenerate result echoes the queried percentage
calculateRoutePositionEchoesPercentage(wps, pct, dep, dur) ==
    IF Len(wps) < 2
    THEN <<[position |-> <<Num(0), Num(0)>>,
            currentTime |-> DateFromString(dep),
            percentage |-> pct]>>
    ELSE Const(totalDurationMs(dur), LAMBDA total :
         Const(routePosition(wps, adjustedPercentage(pct, total)), LAMBDA position :
             IF position = <<>> THEN <<>>
             ELSE <<[position |-> position[1],
                     currentTime |-> routeTime(pct, dep, total),
                     percentage |-> pct]>>))

\* <<r>> when the call returns RouteProgress r, <<>> when it throws
calculateRoutePosition(wps, pct, dep, dur) ==
    IF Len(wps) < 2
    THEN <<[position |-> <<Num(0), Num(0)>>,
            currentTime |-> DateFromString(dep),
            percentage |-> Num(0)]>>
    ELSE Const(totalDurationMs(dur), LAMBDA total :
         Const(routePosition(wps, adjustedPercentage(pct, total)), LAMBDA position :
             IF position = <<>> THEN <<>>
             ELSE <<[position |-> position[1],
                     currentTime |-> routeTime(pct, dep, total),
                     percentage |-> pct]>>))

(***************************************************************************)
(* calculateRoutePositions.                                                *)
(***************************************************************************)
INTERVAL == 5 * 60 * 1000

\* cacheTotalDurationMs without the 20 minutes of taxi time
cacheTotalDurationMsNoTaxi(dur) ==
    Const(parseDuration(dur), LAMBDA d :
        Add(Mul(d.hours, Num(3600000)), Mul(d.minutes, Num(60000))))

cacheTotalDurationMs(dur) ==
    Const(parseDuration(dur), LAMBDA d :
        Add(Add(Mul(d.hours, Num(3600000)), Mul(d.minutes, Num(60000))), Num(20 * 60 * 1000)))

cacheSteps(total) == Ceil(Div(total, Num(INTERVAL)))

samplePercentage(i, total) == Div(Mul(Mul(Num(i), Num(INTERVAL)), Num(100)), total)

\* {...progress, timeString: progress.currentTime.toLocaleTimeString()}
cachedSample(r) ==
    [position |-> r.position,
     currentTime |-> r.currentTime,
     percentage |-> r.percentage,
     timeString |-> toLocaleTimeString(r.currentTime)]

\* The values of i for which the for loop's condition i <= steps holds
loopIndices(total) ==
    Const(cacheSteps(total), LAMBDA steps :
        IF IsFinite(steps) /\ steps.n >= 0 THEN 0..IntValue(steps) ELSE {})

\* sampleCount of a loop without the break on percentage > 100
sampleCountNoBreak(total) == Cardinality(loopIndices(total))

\* The number of iterations that reach the push: the loop leaves at the
\* first index whose percentage exceeds 100
sampleCount(total) ==
    LET over == {i \in loopIndices(total) : Gt(samplePercentage(i, total), Num(100))}
    IN  IF over = {} THEN Cardinality(loopIndices(total)) ELSE Min(over)

\* The outcome of calculateRoutePositions on a plan that passes its guard:
\* [threw, positions], a throwing calculateRoutePosition aborting the callback
routePositions(nodes, dep, dur) ==
    Const(cacheTotalDurationMs(dur), LAMBDA total :
    Const(sampleCount(total), LAMBDA count :
    Const([i \in 0..(count - 1) |->
              calculateRoutePosition(nodes, samplePercentage(i, total), dep, dur)],
          LAMBDA results :
              IF \E i \in 0..(count - 1) : results[i] = <<>>
              THEN [threw |-> TRUE, positions |-> <<>>]
              ELSE [threw |-> FALSE,
                    positions |-> [j \in 1..count |-> cachedSample(results[j - 1][1])]])))

(***************************************************************************)
(* findClosestPosition.  Indices are those of the JavaScript array, from   *)
(* 0; the result is <<sample>>, or <<>> for null.                          *)
(***************************************************************************)
\* Math.abs
MathAbs(a) == IF Lt(a, Num(0)) THEN Neg(a) ELSE a

\* The while loop from the state (low, high): hit with the index mid when a
\* sample's percentage === target, else the (low, high) at which it leaves;
\* iterations counts the evaluations of the loop body
RECURSIVE searchLoop(_, _, _, _, _)
searchLoop(positions, target, low, high, iterations) ==
    IF low <= high
    THEN LET mid == (low + high) \div 2
         IN  IF NumEq(positions[mid + 1].percentage, target)
             THEN [hit |-> TRUE, mid |-> mid, low |-> low, high |-> high,
                   iterations |-> iterations + 1]
             ELSE IF Lt(positions[mid + 1].percentage, target)
                  THEN searchLoop(positions, target, mid + 1, high, iterations + 1)
                  ELSE searchLoop(positions, target, low, mid - 1, iterations + 1)
    ELSE [hit |-> FALSE, mid |-> 0, low |-> low, high |-> high, iterations |-> iterations]

\* closestOfBracket with <= for <: a tie goes to positions[low]
closestOfBracketTieToLow(positions, target, low, high) ==
    IF low < Len(positions) /\ high >= 0
    THEN IF Le(MathAbs(Sub(positions[low + 1].percentage, target)),
               MathAbs(Sub(positions[high + 1].percentage, target)))
         THEN <<positions[low + 1]>>
         ELSE <<positions[high + 1]>>
    ELSE <<>>

\* closestOfBracket that returns positions[high] without comparing
closestOfBracketAlwaysHigh(positions, target, low, high) ==
    IF low < Len(positions) /\ high >= 0 THEN <<positions[high + 1]>> ELSE <<>>

\* closestOfBracket whose guard is high > 0
closestOfBracketHighPositive(positions, target, low, high) ==
    IF low < Len(positions) /\ high > 0
    THEN IF Lt(MathAbs(Sub(positions[low + 1].percentage, target)),
               MathAbs(Sub(positions[high + 1].percentage, target)))
         THEN <<positions[low + 1]>>
         ELSE <<positions[high + 1]>>
    ELSE <<>>

\* The return expression after the loop
closestOfBracket(positions, target, low, high) ==
    IF low < Len(positions) /\ high >= 0
    THEN IF Lt(MathAbs(Sub(positions[low + 1].percentage, target)),
               MathAbs(Sub(positions[high + 1].percentage, target)))
         THEN <<positions[low + 1]>>
         ELSE <<positions[high + 1]>>
    ELSE <<>>

\* findClosestPosition that returns positions[low] on an exact match
findClosestPositionHitReturnsLow(positions, target) ==
    IF Len(positions) = 0 THEN <<>>
    ELSE IF Le(target, positions[1].percentage) THEN <<positions[1]>>
    ELSE IF Ge(target, positions[Len(positions)].percentage)
         THEN <<positions[Len(positions)]>>
    ELSE Const(searchLoop(positions, target, 0, Len(positions) - 1, 0), LAMBDA s :
             IF s.hit THEN <<positions[s.low + 1]>>
             ELSE closestOfBracket(positions, target, s.low, s.high))

\* findClosestPosition without the two edge-case returns
findClosestPositionNoEdgeCases(positions, target) ==
    IF Len(positions) = 0 THEN <<>>
    ELSE Const(searchLoop(positions, target, 0, Len(positions) - 1, 0), LAMBDA s :
             IF s.hit THEN <<positions[s.mid + 1]>>
             ELSE closestOfBracket(positions, target, s.low, s.high))

findClosestPosition(positions, target) ==
    IF Len(positions) = 0 THEN <<>>
    ELSE IF Le(target, positions[1].percentage) THEN <<positions[1]>>
    ELSE IF Ge(target, positions[Len(positions)].percentage)
         THEN <<positions[Len(positions)]>>
    ELSE Const(searchLoop(positions, target, 0, Len(positions) - 1, 0), LAMBDA s :
             IF s.hit THEN <<positions[s.mid + 1]>>
             ELSE closestOfBracket(positions, target, s.low, s.high))

\* The number of loop iterations of findClosestPosition(positions, target)
searchIterations(positions, target) ==
    IF Len(positions) = 0 THEN 0
    ELSE IF Le(target, positions[1].percentage) THEN 0
    ELSE IF Ge(target, positions[Len(positions)].percentage) THEN 0
    ELSE searchLoop(positions, target, 0, Len(positions) - 1, 0).iterations

(***************************************************************************)
(* Inputs.                                                                 *)
(***************************************************************************)
Points == {[lat |-> Num(0), lon |-> Num(0)],
           [lat |-> Num(0), lon |-> Num(10)],
           [lat |-> Num(10), lon |-> Num(20)]}

\* Routes of up to MaxWaypoints waypoints, no waypoint repeated in a row
WaypointLists ==
    {w \in UNION {[1..n -> Points] : n \in 0..MaxWaypoints} :
        \A i \in 1..(Len(w) - 1) : w[i] # w[i + 1]}

MinuteValues == {0, 5, 7, 10, 15, 20}

WellFormedDurations ==
    {formatDuration(Num(h), Num(m)) : h \in 0..MaxHours, m \in MinuteValues}

UnknownDuration ==
    <<"U", "n", "k", "n", "o", "w", "n", " ", "d", "u", "r", "a", "t", "i", "o", "n">>

MalformedDurations == {UnknownDuration, <<>>, <<"2", "h">>, formatDuration(NaN, NaN)}

Durations == WellFormedDurations \cup MalformedDurations

DepTimes == {<<>>, <<90>>}

\* Multiples of 12.5 and four odd sixteenths
Percentages == {Rat(25 * i, 2) : i \in 0..8}
               \cup {Rat(25, 16), Rat(725, 16), Rat(875, 16), Rat(1575, 16)}

(***************************************************************************)
(* State machine: one call of either function on inputs drawn in Init.     *)
(***************************************************************************)
Init ==
    /\ waypoints \in WaypointLists
    /\ depTime \in DepTimes
    /\ duration \in Durations
    /\ percentage = Num(0)
    /\ progress = [kind |-> "none", val |-> <<>>]
    /\ cachedPositions = <<>>
    /\ sliderValue = Num(0)
    /\ routeProgress = <<>>
    /\ pc = "ready"
    /\ query = Num(0)
    /\ closest = [kind |-> "none", val |-> <<>>]
    /\ departureTime = <<>>
    /\ arrivalTime = <<>>
    /\ timezones = [dep |-> <<>>, arr |-> <<>>]
    /\ TrackerInit
    /\ geodesy = <<>>
    /\ RefreshInit

\* calculateRoutePosition(waypoints, pct, depTime, duration)
CalculateRoutePosition ==
    /\ pc = "ready"
    /\ \E pct \in Percentages :
         /\ percentage' = pct
         /\ LET r == calculateRoutePosition(waypoints, pct, depTime, duration)
            IN  progress' = [kind |-> IF r = <<>> THEN "throw" ELSE "return", val |-> r]
    /\ pc' = "queried"
    /\ UNCHANGED <<waypoints, depTime, duration, cachedPositions, sliderValue, routeProgress>>
    /\ UNCHANGED <<closestVars, editVars, trackerVars, geodesyVars, refreshVars>>

\* calculateRoutePositions(plan, depTime) with plan.route.nodes = waypoints
\* and plan.duration = duration
CalculateRoutePositions ==
    /\ pc = "ready"
    /\ IF duration = <<>> \/ Len(waypoints) = 0
       THEN /\ cachedPositions' = <<>>
            /\ pc' = "cached"
            /\ UNCHANGED <<sliderValue, routeProgress>>
       ELSE \E b \in {routePositions(waypoints, depTime, duration)} :
                IF b.threw
                THEN /\ pc' = "threw"
                     /\ UNCHANGED <<cachedPositions, sliderValue, routeProgress>>
                ELSE /\ cachedPositions' = b.positions
                     /\ sliderValue' = Num(0)
                     /\ routeProgress' = IF b.positions = <<>> THEN <<>>
                                         ELSE <<b.positions[1]>>
                     /\ pc' = "cached"
    /\ UNCHANGED <<waypoints, depTime, duration, percentage, progress>>
    /\ UNCHANGED <<closestVars, editVars, trackerVars, geodesyVars, refreshVars>>

Next == CalculateRoutePosition \/ CalculateRoutePositions

Spec == Init /\ [][Next]_vars

(***************************************************************************)
(* Inputs of findClosestPosition: every strictly ascending sequence of up  *)
(* to MaxSamples samples over SampleValues, and the slider's targets.      *)
(***************************************************************************)
SampleValues == {Num(0), Num(10), Num(20), Num(40), Num(70), Num(100)}

\* A cached sample of percentage p, its position telling the samples apart
Sample(p) ==
    cachedSample([position |-> <<p, Num(0)>>, currentTime |-> Num(0), percentage |-> p])

SampleSequences ==
    {[j \in 1..Len(ps) |-> Sample(ps[j])] :
        ps \in {q \in UNION {[1..n -> SampleValues] : n \in 0..MaxSamples} :
                    \A j \in 1..(Len(q) - 1) : Lt(q[j], q[j + 1])}}

\* Values of the slider (min 0, max 100, step 0.1)
Targets ==
    {Num(0), Num(5), Num(10), Num(12), Num(15), Num(20), Num(25), Num(30),
     Num(40), Num(55), Rat(623, 10), Num(70), Num(85), Num(100)}

(***************************************************************************)
(* State machine of the lookup: a cache holding any ascending sequence,    *)
(* queried directly or through the slider's handler.                       *)
(***************************************************************************)
InitClosest ==
    /\ waypoints = <<>>
    /\ depTime = <<>>
    /\ duration = <<>>
    /\ percentage = Num(0)
    /\ progress = [kind |-> "none", val |-> <<>>]
    /\ cachedPositions \in SampleSequences
    /\ sliderValue = Num(0)
    /\ routeProgress = <<>>
    /\ pc = "cached"
    /\ query = Num(0)
    /\ closest = [kind |-> "none", val |-> <<>>]
    /\ departureTime = <<>>
    /\ arrivalTime = <<>>
    /\ timezones = [dep |-> <<>>, arr |-> <<>>]
    /\ TrackerInit
    /\ geodesy = <<>>
    /\ RefreshInit

\* findClosestPosition(cachedPositions, t)
FindClosestPosition ==
    /\ pc = "cached"
    /\ \E t \in Targets :
         /\ query' = t
         /\ closest' = [kind |-> "return", val |-> findClosestPosition(cachedPositions, t)]
    /\ pc' = "found"
    /\ UNCHANGED <<waypoints, depTime, duration, percentage, progress,
                   cachedPositions, sliderValue, routeProgress, editVars, trackerVars,
                   geodesyVars, refreshVars>>

\* handleSliderChange(event, value)
HandleSliderChange ==
    /\ pc = "cached"
    /\ \E value \in Targets :
         /\ sliderValue' = value
         /\ IF Len(cachedPositions) = 0
            THEN UNCHANGED <<routeProgress, closestVars>>
            ELSE \E position \in {findClosestPosition(cachedPositions, value)} :
                     /\ query' = value
                     /\ closest' = [kind |-> "return", val |-> position]
                     /\ routeProgress' =
                            IF position = <<>> THEN routeProgress
                            ELSE <<[position |-> position[1].position,
                                    currentTime |-> position[1].currentTime,
                                    percentage |-> value]>>
    /\ pc' = "slid"
    /\ UNCHANGED <<waypoints, depTime, duration, percentage, progress, cachedPositions,
                   editVars, trackerVars, geodesyVars, refreshVars>>

NextClosest == FindClosestPosition \/ HandleSliderChange

SpecClosest == InitClosest /\ [][NextClosest]_vars

(***************************************************************************)
(* The time inputs and the recalculation effect.  The plan loaded into     *)
(* flightPlans[0] has route.nodes = waypoints and duration = duration; pc  *)
(* is "idle" while flightPlans is empty, "loaded" while it holds the plan, *)
(* "crashed" once the effect has thrown.                                   *)
(***************************************************************************)
\* An airport's timezone record is <<dst>>, its offset.dst in hours, or <<>>
\* when getAirportTimezone returns null
calculateDuration(depT, arrT, depAirport, arrAirport) ==
    IF depAirport = <<>> \/ arrAirport = <<>> THEN UnknownDuration
    ELSE LET depDate == DateFromString(depT)
             arrDate == DateFromString(arrT)
             depUTC == DateFromNumber(Sub(depDate, Mul(Num(depAirport[1]), Num(3600000))))
             arrUTC == DateFromNumber(Sub(arrDate, Mul(Num(arrAirport[1]), Num(3600000))))
             durationMs == Sub(arrUTC, depUTC)
             hours == Floor(Div(durationMs, Num(1000 * 60 * 60)))
             minutes == MathRound(Div(Rem(durationMs, Num(1000 * 60 * 60)), Num(1000 * 60)))
         IN  formatDuration(hours, minutes)

\* calculateRoutePositions(plan, dep) on the loaded plan, its duration dur
calculateRoutePositionsOfPlan(dep, dur) ==
    IF dur = <<>> \/ Len(waypoints) = 0
    THEN /\ cachedPositions' = <<>>
         /\ pc' = "loaded"
         /\ UNCHANGED <<sliderValue, routeProgress>>
    ELSE \E b \in {routePositions(waypoints, dep, dur)} :
             IF b.threw
             THEN /\ pc' = "crashed"
                  /\ UNCHANGED <<cachedPositions, sliderValue, routeProgress>>
             ELSE /\ cachedPositions' = b.positions
                  /\ sliderValue' = Num(0)
                  /\ routeProgress' = IF b.positions = <<>> THEN <<>>
                                      ELSE <<b.positions[1]>>
                  /\ pc' = "loaded"

\* The effect on [departureTime, arrivalTime, flightPlans], run with the
\* values dep and arr that the handler has just set
recalculateEffect(dep, arr) ==
    IF pc = "loaded" /\ dep # <<>> /\ arr # <<>>
    THEN \E dur \in {calculateDuration(dep, arr, timezones.dep, timezones.arr)} :
             /\ duration' = dur
             /\ calculateRoutePositionsOfPlan(dep, dur)
    ELSE UNCHANGED <<duration, cachedPositions, sliderValue, routeProgress, pc>>

EditRoutes ==
    {w \in WaypointLists : Len(w) \in 1..2 /\ w[1] = [lat |-> Num(0), lon |-> Num(0)]}

TimezonePairs ==
    {[dep |-> <<0>>, arr |-> <<0>>], [dep |-> <<0>>, arr |-> <<1>>],
     [dep |-> <<>>, arr |-> <<0>>]}

DepartureInputs == {<<>>, <<90>>, <<120>>}
ArrivalInputs == {<<>>, <<60>>, <<120>>, <<150>>, <<180>>}

InitEdit ==
    /\ waypoints \in EditRoutes
    /\ timezones \in TimezonePairs
    /\ departureTime \in DepartureInputs
    /\ arrivalTime \in ArrivalInputs
    /\ depTime = <<>>
    /\ duration = <<>>
    /\ percentage = Num(0)
    /\ progress = [kind |-> "none", val |-> <<>>]
    /\ cachedPositions = <<>>
    /\ sliderValue = Num(0)
    /\ routeProgress = <<>>
    /\ pc = "idle"
    /\ query = Num(0)
    /\ closest = [kind |-> "none", val |-> <<>>]
    /\ TrackerInit
    /\ geodesy = <<>>
    /\ RefreshInit

\* searchFlightPlans: the request fails, finds no plan, or loads the plan
SearchFlightPlans ==
    /\ pc \in {"idle", "loaded"}
    /\ \/ UNCHANGED <<duration, cachedPositions, sliderValue, routeProgress, pc>>
       \/ /\ pc' = "idle"
          /\ duration' = <<>>
          /\ cachedPositions' = <<>>
          /\ UNCHANGED <<sliderValue, routeProgress>>
       \/ \E dur \in {IF departureTime # <<>> /\ arrivalTime # <<>>
                       THEN calculateDuration(departureTime, arrivalTime,
                                              timezones.dep, timezones.arr)
                       ELSE <<>>} :
              /\ duration' = dur
              /\ calculateRoutePositionsOfPlan(departureTime, dur)
    /\ UNCHANGED <<waypoints, depTime, percentage, progress, closestVars, editVars,
                   trackerVars, geodesyVars, refreshVars>>

\* handleDepartureTimeChange(time), then the effect
HandleDepartureTimeChange ==
    /\ pc \in {"idle", "loaded"}
    /\ \E time \in DepartureInputs :
         \E newArrivalTime \in
                {IF time # <<>> /\ (arrivalTime = <<>>
                                    \/ Le(DateFromString(arrivalTime), DateFromString(time)))
                 THEN <<time[1] + 60>> ELSE arrivalTime} :
             /\ departureTime' = time
             /\ arrivalTime' = newArrivalTime
             /\ recalculateEffect(time, newArrivalTime)
    /\ UNCHANGED <<waypoints, depTime, percentage, progress, closestVars, timezones,
                   trackerVars, geodesyVars, refreshVars>>

\* setArrivalTime(e.target.value), then the effect
HandleArrivalTimeChange ==
    /\ pc \in {"idle", "loaded"}
    /\ \E time \in ArrivalInputs :
         /\ arrivalTime' = time
         /\ recalculateEffect(departureTime, time)
    /\ UNCHANGED <<waypoints, depTime, percentage, progress, closestVars,
                   departureTime, timezones, trackerVars, geodesyVars, refreshVars>>

\* clearStoredFields
ClearStoredFields ==
    /\ pc \in {"idle", "loaded"}
    /\ departureTime' = <<>>
    /\ arrivalTime' = <<>>
    /\ duration' = <<>>
    /\ routeProgress' = <<>>
    /\ sliderValue' = Num(0)
    /\ cachedPositions' = <<>>
    /\ pc' = "idle"
    /\ UNCHANGED <<waypoints, depTime, percentage, progress, closestVars, timezones,
                   trackerVars, geodesyVars, refreshVars>>

NextEdit ==
    \/ SearchFlightPlans
    \/ HandleDepartureTimeChange
    \/ HandleArrivalTimeChange
    \/ ClearStoredFields

SpecEdit == InitEdit /\ [][NextEdit]_vars

(***************************************************************************)
(* leafletHelpers.calculateDuration and convertToUTC.  An AirportTimezone  *)
(* is <<[gmt, dst]>>, its two offsets in hours, or <<>> for null.          *)
(***************************************************************************)
\* arrUTC.getTime() - depUTC.getTime() in calculateDuration
durationMsOf(depT, arrT, depTzone, arrTzone) ==
    LET depDate == DateFromString(depT)
        arrDate == DateFromString(arrT)
        depUTC == DateFromNumber(Sub(depDate, Mul(Num(depTzone[1].dst), Num(3600000))))
        arrUTC == DateFromNumber(Sub(arrDate, Mul(Num(arrTzone[1].dst), Num(3600000))))
    IN  Sub(arrUTC, depUTC)

\* The hours and minutes calculateDuration formats
durationFields(durationMs) ==
    [hours |-> Floor(Div(durationMs, Num(1000 * 60 * 60))),
     minutes |-> MathRound(Div(Rem(durationMs, Num(1000 * 60 * 60)), Num(1000 * 60)))]

helperCalculateDuration(depT, arrT, depTzone, arrTzone) ==
    IF depTzone = <<>> \/ arrTzone = <<>> THEN UnknownDuration
    ELSE Const(durationFields(durationMsOf(depT, arrT, depTzone, arrTzone)),
               LAMBDA f : formatDuration(f.hours, f.minutes))

\* convertToUTC(date, timezone).getTime()
convertToUTC(date, timezone) ==
    DateFromNumber(Sub(date, Mul(Num(timezone.gmt + timezone.dst), Num(3600000))))

AirportTimezones == {[gmt |-> g, dst |-> d] : g \in {-5, 0, 1}, d \in {0, 1}}

\* 10:00 and 10:00:30
DepartureStrings == {<<600>>, <<600, 30>>}
\* From an hour before the departure to two hours and five minutes after it
ArrivalStrings == {<<540>>, <<570>>, <<600>>, <<659, 50>>, <<690>>, <<720>>, <<725>>}

InitDuration ==
    /\ departureTime \in DepartureStrings
    /\ arrivalTime \in ArrivalStrings
    /\ timezones \in {[dep |-> a, arr |-> b] :
                         a \in {<<z>> : z \in AirportTimezones} \cup {<<>>},
                         b \in {<<z>> : z \in AirportTimezones} \cup {<<>>}}
    /\ waypoints = <<>>
    /\ depTime = <<>>
    /\ duration = <<>>
    /\ percentage = Num(0)
    /\ progress = [kind |-> "none", val |-> <<>>]
    /\ cachedPositions = <<>>
    /\ sliderValue = Num(0)
    /\ routeProgress = <<>>
    /\ pc = "idle"
    /\ query = Num(0)
    /\ closest = [kind |-> "none", val |-> <<>>]
    /\ TrackerInit
    /\ geodesy = <<>>
    /\ RefreshInit

\* calculateDuration(depTime, arrTime, depTimezone, arrTimezone)
CalculateDuration ==
    /\ pc = "idle"
    /\ duration' = helperCalculateDuration(departureTime, arrivalTime,
                                           timezones.dep, timezones.arr)
    /\ pc' = "computed"
    /\ UNCHANGED <<waypoints, depTime, percentage, progress, cachedPositions, sliderValue,
                   routeProgress, closestVars, editVars, trackerVars, geodesyVars, refreshVars>>

NextDuration == CalculateDuration

SpecDuration == InitDuration /\ [][NextDuration]_vars

(***************************************************************************)
(* Trigonometry of calculateInterpolatedPosition, over the reals.  Besides *)
(* the rationals a value is one of                                         *)
(*   [k |-> "angle", deg |-> x]   x * PI / 180 radians, x in degrees       *)
(*   [k |-> "sin", deg |-> x]     the sine of x degrees                    *)
(*   [k |-> "cos", deg |-> x]     the cosine of x degrees                  *)
(*   [k |-> "sinsin"]             a product of two sines                   *)
(*   [k |-> "nonneg"]             1 minus such a product, which is >= 0    *)
(*   [k |-> "opaque"]             any other real                           *)
(* and a coordinate in degrees is a rational or the coordinate             *)
(*   [k |-> "moved", coord, from, dist, heading]                           *)
(* of the point dist km from the point `from` on the given heading.        *)
(***************************************************************************)
Opaque == [k |-> "opaque"]
IsRational(u) == u.k = "fin"
IsZero(u) == IsRational(u) /\ u.n = 0
IsOne(u) == u = Num(1)

\* A latitude in degrees lies in [-90, 90]: Math.asin returns such an angle
InLatitudeRange(x) ==
    \/ IsRational(x) /\ Le(Num(-90), x) /\ Le(x, Num(90))
    \/ x.k = "moved" /\ x.coord = "lat"

\* x * Math.PI / 180 and r * 180 / Math.PI
Radians(x) == IF x.k \in {"fin", "moved"} THEN [k |-> "angle", deg |-> x] ELSE Opaque
Degrees(r) ==
    IF r.k = "angle" THEN r.deg
    ELSE IF IsZero(r) THEN Num(0)
    ELSE IF r.k = "turned" THEN r
    ELSE Opaque

\* The sine and cosine of the quadrant angles are exact; those of another
\* angle stay symbolic, as do those of a number of radians ("sinr", "cosr")
MathSin(a) ==
    IF IsZero(a) THEN Num(0)
    ELSE IF IsRational(a) THEN [k |-> "sinr", rad |-> a]
    ELSE IF a.k # "angle" THEN Opaque
    ELSE IF a.deg \in {Num(0), Num(180), Num(360)} THEN Num(0)
    ELSE IF a.deg = Num(90) THEN Num(1)
    ELSE IF a.deg \in {Num(270), Num(-90)} THEN Num(-1)
    ELSE [k |-> "sin", deg |-> a.deg]

MathCos(a) ==
    IF IsZero(a) THEN Num(1)
    ELSE IF IsRational(a) THEN [k |-> "cosr", rad |-> a]
    ELSE IF a.k # "angle" THEN Opaque
    ELSE IF a.deg \in {Num(90), Num(270), Num(-90)} THEN Num(0)
    ELSE IF a.deg \in {Num(0), Num(360)} THEN Num(1)
    ELSE IF a.deg = Num(180) THEN Num(-1)
    ELSE [k |-> "cos", deg |-> a.deg]

\* asin(sin(x)) = x for x in [-90, 90] degrees
MathAsin(u) ==
    IF IsZero(u) THEN Num(0)
    ELSE IF u = Num(1) THEN [k |-> "angle", deg |-> Num(90)]
    ELSE IF u = Num(-1) THEN [k |-> "angle", deg |-> Num(-90)]
    ELSE IF u.k = "sin" /\ InLatitudeRange(u.deg) THEN [k |-> "angle", deg |-> u.deg]
    ELSE Opaque

\* atan2(0, x) = 0 for x >= 0 (also at x = 0) and PI for x < 0;
\* atan2(sin r, cos r) = r, an arc of r radians, for -3 < r < 3
MathAtan2(y, x) ==
    IF IsZero(y) /\ (x.k = "nonneg" \/ (IsRational(x) /\ x.n >= 0)) THEN Num(0)
    ELSE IF IsZero(y) /\ IsRational(x) THEN [k |-> "angle", deg |-> Num(180)]
    ELSE IF /\ y.k = "sinr" /\ x.k = "cosr"
            /\ x.rad \in {y.rad, Neg(y.rad)}
            /\ Lt(Num(-3), y.rad) /\ Lt(y.rad, Num(3))
    THEN [k |-> "arc", rad |-> y.rad]
    ELSE Opaque

\* u * v, u + v and u - v
RealMul(u, v) ==
    IF IsRational(u) /\ IsRational(v) THEN Mul(u, v)
    ELSE IF IsZero(u) \/ IsZero(v) THEN Num(0)
    ELSE IF IsOne(u) THEN v
    ELSE IF IsOne(v) THEN u
    ELSE IF u = Num(-1) /\ v.k = "sinr" THEN [k |-> "sinr", rad |-> Neg(v.rad)]
    ELSE IF u.k = "sin" /\ v.k = "sin" THEN [k |-> "sinsin"]
    ELSE Opaque

\* [k |-> "turned", deg, rad] is an angle of deg degrees plus rad radians
RealAdd(u, v) ==
    IF IsRational(u) /\ IsRational(v) THEN Add(u, v)
    ELSE IF IsZero(u) THEN v
    ELSE IF IsZero(v) THEN u
    ELSE IF u.k = "angle" /\ IsRational(u.deg) /\ v.k = "arc"
    THEN [k |-> "turned", deg |-> u.deg, rad |-> v.rad]
    ELSE Opaque

RealSub(u, v) ==
    IF IsRational(u) /\ IsRational(v) THEN Sub(u, v)
    ELSE IF IsZero(v) THEN u
    ELSE IF IsOne(u) /\ v.k = "sinsin" THEN [k |-> "nonneg"]
    ELSE Opaque

(***************************************************************************)
(* calculateInterpolatedPosition.  A position is [lat, lng, timestamp]:    *)
(* every fix of the tracker carries a timestamp, so the default of         *)
(* `startPos.timestamp ?? now` is never taken; names are left out.         *)
(***************************************************************************)
\* The coordinate a great-circle expression evaluates to: its value when the
\* expression reduces, else the coordinate of the moved point
Coordinate(value, coord, startPos, distance, heading) ==
    IF value.k # "opaque" THEN value
    ELSE [k |-> "moved", coord |-> coord,
          from |-> [lat |-> startPos.lat, lng |-> startPos.lng],
          dist |-> distance, heading |-> heading]

\* The returned position with the timestamp of startPos instead of now
destinationKeepsTimestamp(startPos, distance, heading, now, d, lat2) ==
    LET headingRad == Radians(heading)
        lat1 == Radians(startPos.lat)
        lng1 == Radians(startPos.lng)
        lng2 == RealAdd(lng1,
                        MathAtan2(RealMul(RealMul(MathSin(headingRad), MathSin(d)),
                                          MathCos(lat1)),
                                  RealSub(MathCos(d), RealMul(MathSin(lat1), MathSin(lat2)))))
    IN  [lat |-> Coordinate(Degrees(lat2), "lat", startPos, distance, heading),
         lng |-> Coordinate(Degrees(lng2), "lng", startPos, distance, heading),
         timestamp |-> startPos.timestamp]

\* const lng2 = ... and the returned position, given distance, d and lat2
destination(startPos, distance, heading, now, d, lat2) ==
    LET headingRad == Radians(heading)
        lat1 == Radians(startPos.lat)
        lng1 == Radians(startPos.lng)
        lng2 == RealAdd(lng1,
                        MathAtan2(RealMul(RealMul(MathSin(headingRad), MathSin(d)),
                                          MathCos(lat1)),
                                  RealSub(MathCos(d), RealMul(MathSin(lat1), MathSin(lat2)))))
    IN  [lat |-> Coordinate(Degrees(lat2), "lat", startPos, distance, heading),
         lng |-> Coordinate(Degrees(lng2), "lng", startPos, distance, heading),
         timestamp |-> now]

\* const lat2 = ... with Math.sin(d) and Math.cos(d) exchanged
destinationLatitudeSwapsSinCos(startPos, distance, heading, now, d) ==
    LET headingRad == Radians(heading)
        lat1 == Radians(startPos.lat)
    IN  destination(startPos, distance, heading, now, d,
                    MathAsin(RealAdd(RealMul(MathSin(lat1), MathSin(d)),
                                     RealMul(RealMul(MathCos(lat1), MathCos(d)),
                                             MathCos(headingRad)))))

\* const lat2 = Math.asin(...), given distance and d
destinationLatitude(startPos, distance, heading, now, d) ==
    LET headingRad == Radians(heading)
        lat1 == Radians(startPos.lat)
    IN  destination(startPos, distance, heading, now, d,
                    MathAsin(RealAdd(RealMul(MathSin(lat1), MathCos(d)),
                                     RealMul(RealMul(MathCos(lat1), MathSin(d)),
                                             MathCos(headingRad)))))

\* const R = 6371 and const d = distance / R
angularDistance(startPos, distance, heading, now) ==
    destinationLatitude(startPos, distance, heading, now, Div(distance, Num(6371)))

\* now is the value of Date.now() at the call; timeDiff is in seconds and
\* distance = speed * timeDiff / 3600 in km
calculateInterpolatedPosition(startPos, speed, heading, now) ==
    angularDistance(startPos,
                    Div(Mul(speed, Div(Sub(now, startPos.timestamp), Num(1000))), Num(3600)),
                    heading, now)

(***************************************************************************)
(* calculateDistance.  A product of irrational values is kept as           *)
(* [k |-> "prod", c, f]: the rational coefficient c times the factors of   *)
(* the bag f, so that two products are equal when they multiply the same   *)
(* factors in any order; a sum keeps the bag of its terms.                 *)
(***************************************************************************)
\* A value as coefficient and factors; Math.sin is odd, sin(-x) = -sin(x)
AsProduct(u) ==
    IF IsRational(u) THEN [c |-> u, f |-> EmptyBag]
    ELSE IF u.k = "prod" THEN [c |-> u.c, f |-> u.f]
    ELSE IF u.k = "sin" /\ u.deg.n < 0
    THEN [c |-> Num(-1), f |-> SetToBag({[k |-> "sin", deg |-> Neg(u.deg)]})]
    ELSE [c |-> Num(1), f |-> SetToBag({u})]

Product(c, f) ==
    IF c.n = 0 THEN Num(0) ELSE IF f = EmptyBag THEN c ELSE [k |-> "prod", c |-> c, f |-> f]

\* u * v, u + v and u - v
Times(u, v) ==
    Product(Mul(AsProduct(u).c, AsProduct(v).c), AsProduct(u).f (+) AsProduct(v).f)

Plus(u, v) ==
    IF IsRational(u) /\ IsRational(v) THEN Add(u, v)
    ELSE IF IsZero(u) THEN v
    ELSE IF IsZero(v) THEN u
    ELSE [k |-> "sum", t |-> SetToBag({u}) (+) SetToBag({v})]

Minus(u, v) == Plus(u, Times(Num(-1), v))

\* r / 2 for an angle r
HalfAngle(r) == [k |-> "angle", deg |-> Div(r.deg, Num(2))]

MathSqrt(u) ==
    IF IsZero(u) THEN Num(0) ELSE IF IsOne(u) THEN Num(1) ELSE [k |-> "sqrt", of |-> u]

\* Math.atan2 where its value is exact, else the term atan2(y, x)
Atan2(y, x) ==
    IF IsZero(y) /\ IsRational(x) THEN MathAtan2(y, x) ELSE [k |-> "atan2", y |-> y, x |-> x]

\* Math.round of a rational, else the term round(u)
RoundTerm(u) == IF IsRational(u) THEN MathRound(u) ELSE [k |-> "round", of |-> u]

\* const a = ... with Math.cos(phi1) squared in place of cos(phi1) * cos(phi2)
haversineCosSquared(phi1, phi2, sinHalfDphi, sinHalfDlambda) ==
    Plus(Times(sinHalfDphi, sinHalfDphi),
         Times(Times(Times(MathCos(phi1), MathCos(phi1)), sinHalfDlambda), sinHalfDlambda))

\* const a = sin(dphi/2) * sin(dphi/2) + cos(phi1) * cos(phi2) * sin(dlambda/2) * sin(dlambda/2)
haversine(phi1, phi2, sinHalfDphi, sinHalfDlambda) ==
    Plus(Times(sinHalfDphi, sinHalfDphi),
         Times(Times(Times(MathCos(phi1), MathCos(phi2)), sinHalfDlambda), sinHalfDlambda))

\* const c = 2 * Math.atan2(Math.sqrt(a), Math.sqrt(1 - a)); return Math.round(R * c)
roundedMeters(a) ==
    RoundTerm(Times(Num(6371000),
                    Times(Num(2), Atan2(MathSqrt(a), MathSqrt(Minus(Num(1), a))))))

\* calculateDistance with lat2 + lat1 in place of lat2 - lat1
calculateDistanceAddsLatitudes(lat1, lng1, lat2, lng2) ==
    roundedMeters(haversine(Radians(lat1), Radians(lat2),
                            MathSin(HalfAngle(Radians(Add(lat2, lat1)))),
                            MathSin(HalfAngle(Radians(Sub(lng2, lng1))))))

calculateDistance(lat1, lng1, lat2, lng2) ==
    roundedMeters(haversine(Radians(lat1), Radians(lat2),
                            MathSin(HalfAngle(Radians(Sub(lat2, lat1)))),
                            MathSin(HalfAngle(Radians(Sub(lng2, lng1))))))

(***************************************************************************)
(* calculateBearing.  Math.atan2 is evaluated where its value is exact: on *)
(* the axes, and atan2(sin t, cos t) = t for -180 < t < 180 degrees.       *)
(***************************************************************************)
\* A nonzero number of magnitude below 10^-14.  The doubles next to 360 are
\* 2^-44 (5.7 * 10^-14) apart, so 360 plus such a number rounds to 360.
Tiny(a) == IsFinite(a) /\ a.n # 0 /\ a.d = 1 /\ Abs(a.n) < 10 /\ a.e <= -15

\* 0 < d < 180 for a number d of degrees
InHalfTurn(d) == d.n > 0 /\ (Tiny(d) \/ Lt(d, Num(180)))

\* A product c * sin(t), and its t
IsSine(p) == BagCardinality(p.f) = 1 /\ \E a \in BagToSet(p.f) : a.k = "sin"
IsCosine(p) == BagCardinality(p.f) = 1 /\ \E a \in BagToSet(p.f) : a.k = "cos"
TheAngle(p) == (CHOOSE a \in BagToSet(p.f) : TRUE).deg

\* The sign of a value where it is known, else 0
SignOfValue(u) ==
    IF IsRational(u) THEN Sgn(u)
    ELSE IF IsSine(AsProduct(u)) /\ InHalfTurn(TheAngle(AsProduct(u)))
    THEN Sgn(AsProduct(u).c)
    ELSE 0

\* Math.atan2(y, x) for y = +/- sin(t) and x = cos(t)
IsSineAndCosine(py, px) ==
    /\ IsSine(py) /\ py.c \in {Num(1), Num(-1)}
    /\ IsCosine(px) /\ px.c = Num(1)
    /\ TheAngle(px) \in {TheAngle(py), Neg(TheAngle(py))}
    /\ InHalfTurn(TheAngle(py))

Atan2Angle(y, x) ==
    IF IsZero(y) /\ IsRational(x) THEN MathAtan2(y, x)
    ELSE IF IsZero(x) /\ SignOfValue(y) # 0
    THEN [k |-> "angle", deg |-> Num(90 * SignOfValue(y))]
    ELSE IF IsSineAndCosine(AsProduct(y), AsProduct(x))
    THEN [k |-> "angle", deg |-> Mul(AsProduct(y).c, TheAngle(AsProduct(y)))]
    ELSE Opaque

\* bearing += 360 in double arithmetic, rounded to the nearest double
AddTo360(bearing) == IF Tiny(bearing) THEN Num(360) ELSE Add(bearing, Num(360))

\* if (bearing < 0) { bearing += 360 }; return bearing
normalisedBearing(bearing) ==
    IF ~IsRational(bearing) THEN Opaque
    ELSE IF Lt(bearing, Num(0)) THEN AddTo360(bearing)
    ELSE bearing

\* const y = ...; const x = ...; let bearing = Math.atan2(y, x) * 180 / Math.PI
bearingFrom(startLat, endLat, dLng) ==
    Degrees(Atan2Angle(
        Times(MathSin(dLng), MathCos(endLat)),
        Minus(Times(MathCos(startLat), MathSin(endLat)),
              Times(Times(MathSin(startLat), MathCos(endLat)), MathCos(dLng)))))

\* start and end are [lat, lng] pairs; dLng = endLng - startLng
calculateBearing(start, end) ==
    normalisedBearing(bearingFrom(Radians(start.lat), Radians(end.lat),
                                  Radians(Sub(end.lng, start.lng))))

\* Latitudes and longitudes in degrees
GeoPoints ==
    {[lat |-> Num(la), lng |-> lo] :
        la \in {-90, 0, 30, 60}, lo \in {Rat(-7378, 100), Num(0), Num(10), Num(180)}}

InitGeodesy ==
    /\ waypoints = <<>>
    /\ depTime = <<>>
    /\ duration = <<>>
    /\ percentage = Num(0)
    /\ progress = [kind |-> "none", val |-> <<>>]
    /\ cachedPositions = <<>>
    /\ sliderValue = Num(0)
    /\ routeProgress = <<>>
    /\ pc = "idle"
    /\ query = Num(0)
    /\ closest = [kind |-> "none", val |-> <<>>]
    /\ departureTime = <<>>
    /\ arrivalTime = <<>>
    /\ timezones = [dep |-> <<>>, arr |-> <<>>]
    /\ TrackerInit
    /\ geodesy = <<>>
    /\ RefreshInit

\* calculateDistance(a.lat, a.lng, b.lat, b.lng)
CalculateDistance ==
    /\ pc = "idle"
    /\ \E a \in GeoPoints, b \in GeoPoints :
         geodesy' = <<[fn |-> "calculateDistance", a |-> a, b |-> b,
                       result |-> calculateDistance(a.lat, a.lng, b.lat, b.lng)]>>
    /\ pc' = "called"
    /\ UNCHANGED <<waypoints, depTime, duration, percentage, progress, cachedPositions,
                   sliderValue, routeProgress, closestVars, editVars, trackerVars,
                   refreshVars>>

\* Pairs of points 2 * 10^-15 degrees of longitude apart, the first at the
\* south pole and the second on the equator
NearMeridianPairs ==
    {<<[lat |-> Num(-90), lng |-> Fin(w, 1, -15)], [lat |-> Num(0), lng |-> Fin(-w, 1, -15)]>> :
        w \in {-1, 1}}

BearingInputs == (GeoPoints \X GeoPoints) \cup NearMeridianPairs

\* calculateBearing([a.lat, a.lng], [b.lat, b.lng])
CalculateBearing ==
    /\ pc = "idle"
    /\ \E ab \in BearingInputs :
         geodesy' = <<[fn |-> "calculateBearing", a |-> ab[1], b |-> ab[2],
                       result |-> calculateBearing(ab[1], ab[2])]>>
    /\ pc' = "called"
    /\ UNCHANGED <<waypoints, depTime, duration, percentage, progress, cachedPositions,
                   sliderValue, routeProgress, closestVars, editVars, trackerVars,
                   refreshVars>>

\* Fixes on the equator, at and near the antimeridian, taken at time 0
Origins ==
    {[lat |-> Num(0), lng |-> lo, timestamp |-> Num(0)] :
        lo \in {Num(0), Rat(17999, 100), Num(180), Num(-180)}}

\* calculateInterpolatedPosition(startPos, speed, heading) called at time now
CalculatePosition ==
    /\ pc = "idle"
    /\ \E startPos \in Origins, speed \in {0, 900}, heading \in {0, 90, 270},
          now \in {0, 100, 5000} :
         geodesy' = <<[fn |-> "calculateInterpolatedPosition", a |-> startPos,
                       b |-> [speed |-> speed, heading |-> heading, now |-> now],
                       result |-> calculateInterpolatedPosition(
                                      startPos, Num(speed), Num(heading), Num(now))]>>
    /\ pc' = "called"
    /\ UNCHANGED <<waypoints, depTime, duration, percentage, progress, cachedPositions,
                   sliderValue, routeProgress, closestVars, editVars, trackerVars,
                   refreshVars>>

NextGeodesy ==
    \/ CalculateDistance
    \/ CalculateBearing
    \/ CalculatePosition

SpecGeodesy == InitGeodesy /\ [][NextGeodesy]_vars

(***************************************************************************)
(* FlightTracker: the tracked flight, its last known position and the      *)
(* displayed aircraft position, driven by the API poll, the 5-second map   *)
(* tick and the 100 ms distance tick.  flightData is <<live>> or <<>> for  *)
(* null, and likewise the positions and timestamps.  The user's location,  *)
(* which the distance timers depend on, is taken to be known.              *)
(***************************************************************************)
\* updateInterpolatedPosition's guard with the speed test alone
mapTickGatedSpeedOnly(live) == Lt(live.speed_horizontal, Num(50))

\* flightData.live.is_ground || flightData.live.speed_horizontal < 50
mapTickGated(live) == live.is_ground \/ Lt(live.speed_horizontal, Num(50))

\* !flightData.live.is_ground && flightData.live.speed_horizontal >= 50
distanceTickMoves(live) == ~live.is_ground /\ Ge(live.speed_horizontal, Num(50))

Fixes == {[latitude |-> Num(30), longitude |-> Num(10)],
          [latitude |-> Num(60), longitude |-> Rat(-7378, 100)]}

Speeds == {Num(0), Num(40), Num(50), Num(900)}
Headings == {Num(0), Num(45), Num(90)}

\* The live part of the flight an API response describes
Flights ==
    {[latitude |-> f.latitude, longitude |-> f.longitude, direction |-> Num(90),
      speed_horizontal |-> v, is_ground |-> g] :
        f \in Fixes, v \in Speeds, g \in BOOLEAN}

\* Values of Date.now(), in milliseconds
ClockValues == {a * 5000 + b * 100 : a \in 0..MaxTicks, b \in 0..MaxTicks}

InitTracker ==
    /\ waypoints = <<>>
    /\ depTime = <<>>
    /\ duration = <<>>
    /\ percentage = Num(0)
    /\ progress = [kind |-> "none", val |-> <<>>]
    /\ cachedPositions = <<>>
    /\ sliderValue = Num(0)
    /\ routeProgress = <<>>
    /\ pc = "tracking"
    /\ query = Num(0)
    /\ closest = [kind |-> "none", val |-> <<>>]
    /\ departureTime = <<>>
    /\ arrivalTime = <<>>
    /\ timezones = [dep |-> <<>>, arr |-> <<>>]
    /\ TrackerInit
    /\ geodesy = <<>>
    /\ RefreshInit

\* Time passes
Advance ==
    /\ pc = "tracking"
    /\ \E dt \in {100, 5000} :
         /\ clock + dt \in ClockValues
         /\ clock' = clock + dt
    /\ UNCHANGED <<flightData, lastKnownPosition, aircraftPosition, lastDrawTime,
                   lastApiCall, interpolated>>
    /\ UNCHANGED <<waypoints, depTime, duration, percentage, progress, cachedPositions,
                   sliderValue, routeProgress, pc, closestVars, editVars,
                   geodesyVars, refreshVars>>

\* trackFlight: the API answers with the state of the flight
TrackFlight ==
    /\ pc = "tracking"
    /\ \E live \in Flights :
         /\ flightData' = <<live>>
         /\ lastKnownPosition' = <<[lat |-> live.latitude, lng |-> live.longitude,
                                    timestamp |-> Num(clock)]>>
         /\ aircraftPosition' = <<[lat |-> live.latitude, lng |-> live.longitude]>>
    /\ lastApiCall' = <<Num(clock)>>
    /\ UNCHANGED <<lastDrawTime, clock, interpolated>>
    /\ UNCHANGED <<waypoints, depTime, duration, percentage, progress, cachedPositions,
                   sliderValue, routeProgress, pc, closestVars, editVars,
                   geodesyVars, refreshVars>>

\* resetAllTrackingState
ResetAllTrackingState ==
    /\ pc = "tracking"
    /\ aircraftPosition' = <<>>
    /\ flightData' = <<>>
    /\ lastKnownPosition' = <<>>
    /\ lastApiCall' = <<>>
    /\ lastDrawTime' = <<>>
    /\ UNCHANGED <<clock, interpolated>>
    /\ UNCHANGED <<waypoints, depTime, duration, percentage, progress, cachedPositions,
                   sliderValue, routeProgress, pc, closestVars, editVars,
                   geodesyVars, refreshVars>>

\* updateInterpolatedPosition: the initial call of the map effect and every
\* tick of its 5-second interval
UpdateInterpolatedPosition ==
    /\ pc = "tracking"
    /\ IF flightData # <<>> /\ lastKnownPosition # <<>>
       THEN IF mapTickGated(flightData[1])
            THEN /\ lastDrawTime' = <<Num(clock)>>
                 /\ UNCHANGED <<lastKnownPosition, aircraftPosition>>
            ELSE \E newPos \in {calculateInterpolatedPosition(
                                    lastKnownPosition[1],
                                    flightData[1].speed_horizontal,
                                    flightData[1].direction, Num(clock))} :
                     /\ lastKnownPosition' = <<newPos>>
                     /\ aircraftPosition' = <<[lat |-> newPos.lat, lng |-> newPos.lng]>>
                     /\ lastDrawTime' = <<Num(clock)>>
       ELSE UNCHANGED <<lastKnownPosition, aircraftPosition, lastDrawTime>>
    /\ UNCHANGED <<flightData, lastApiCall, clock, interpolated>>
    /\ UNCHANGED <<waypoints, depTime, duration, percentage, progress, cachedPositions,
                   sliderValue, routeProgress, pc, closestVars, editVars,
                   geodesyVars, refreshVars>>

\* A tick of the 100 ms interval that interpolates the position for the
\* distance display; the interval exists while an aircraft position is shown
DistanceInterpolationTick ==
    /\ pc = "tracking"
    /\ aircraftPosition # <<>> /\ flightData # <<>> /\ lastKnownPosition # <<>>
    /\ IF distanceTickMoves(flightData[1])
       THEN \E newPos \in {calculateInterpolatedPosition(
                               lastKnownPosition[1],
                               flightData[1].speed_horizontal,
                               flightData[1].direction, Num(clock))} :
                aircraftPosition' = <<[lat |-> newPos.lat, lng |-> newPos.lng]>>
       ELSE UNCHANGED aircraftPosition
    /\ UNCHANGED <<flightData, lastKnownPosition, lastDrawTime, lastApiCall, clock,
                   interpolated>>
    /\ UNCHANGED <<waypoints, depTime, duration, percentage, progress, cachedPositions,
                   sliderValue, routeProgress, pc, closestVars, editVars,
                   geodesyVars, refreshVars>>

\* calculateInterpolatedPosition(lastKnownPosition, speed, heading)
CalculateInterpolatedPosition ==
    /\ pc = "tracking"
    /\ lastKnownPosition # <<>>
    /\ \E speed \in Speeds, heading \in Headings :
         interpolated' = <<[startPos |-> lastKnownPosition[1], speed |-> speed,
                            heading |-> heading, now |-> Num(clock),
                            result |-> calculateInterpolatedPosition(
                                           lastKnownPosition[1], speed, heading,
                                           Num(clock))]>>
    /\ pc' = "called"
    /\ UNCHANGED <<flightData, lastKnownPosition, aircraftPosition, lastDrawTime,
                   lastApiCall, clock>>
    /\ UNCHANGED <<waypoints, depTime, duration, percentage, progress, cachedPositions,
                   sliderValue, routeProgress, closestVars, editVars, geodesyVars, refreshVars>>

NextTracker ==
    \/ Advance
    \/ TrackFlight
    \/ ResetAllTrackingState
    \/ UpdateInterpolatedPosition
    \/ DistanceInterpolationTick
    \/ CalculateInterpolatedPosition

SpecTracker == InitTracker /\ [][NextTracker]_vars

(***************************************************************************)
(* FlightTracker: the auto-refresh.  trackFlight and getAllAircraft run up *)
(* to their fetch in one step and from the answer to their end in another; *)
(* calls await their answers side by side and the answers arrive in any    *)
(* order.  The flight number is not empty.                                 *)
(***************************************************************************)
\* Calls awaiting their fetch, and intervals set and not cleared, at a time
MaxFetches == 2
MaxIntervals == 2

\* clearInterval(autoRefreshIntervalRef.current) when the ref holds an interval
intervalsAfterClear ==
    IF autoRefreshIntervalRef # <<>>
    THEN {i \in intervals : i.id # autoRefreshIntervalRef[1]}
    ELSE intervals

\* The id setInterval returns: one that no interval set and not cleared has
newIntervalId == Min((1..MaxIntervals) \ {i.id : i \in intervals})

\* The flights an API response describes in this part of the model
PolledFlights == {f \in Flights : f.speed_horizontal = Num(900) /\ ~f.is_ground}

TrackErrors ==
    {"Error tracking flight: Failed to fetch flight data",
     "Error tracking flight: No state data received from API",
     "Error tracking flight: Flight not found in current tracking data"}

InitRefresh ==
    /\ waypoints = <<>>
    /\ depTime = <<>>
    /\ duration = <<>>
    /\ percentage = Num(0)
    /\ progress = [kind |-> "none", val |-> <<>>]
    /\ cachedPositions = <<>>
    /\ sliderValue = Num(0)
    /\ routeProgress = <<>>
    /\ pc = "mounted"
    /\ query = Num(0)
    /\ closest = [kind |-> "none", val |-> <<>>]
    /\ departureTime = <<>>
    /\ arrivalTime = <<>>
    /\ timezones = [dep |-> <<>>, arr |-> <<>>]
    /\ TrackerInit
    /\ geodesy = <<>>
    /\ RefreshInit

\* trackFlight(forceRefresh) up to `await fetch`
trackFlightStarts(forceRefresh) ==
    /\ Len(fetches) < MaxFetches
    /\ intervals' = intervalsAfterClear
    /\ autoRefreshIntervalRef' = <<>>
    /\ IF forceRefresh
       THEN UNCHANGED <<flightData, lastKnownPosition, aircraftPosition, lastDrawTime,
                        lastApiCall, error, trackingAllAircraft>>
       ELSE /\ aircraftPosition' = <<>>
            /\ flightData' = <<>>
            /\ lastKnownPosition' = <<>>
            /\ lastApiCall' = <<>>
            /\ lastDrawTime' = <<>>
            /\ trackingAllAircraft' = FALSE
            /\ error' = ""
    /\ loading' = TRUE
    /\ fetches' = Append(fetches, [fn |-> "trackFlight", refresh |-> forceRefresh])
    /\ pc' = "fetching"
    /\ UNCHANGED <<clock, interpolated>>
    /\ UNCHANGED <<waypoints, depTime, duration, percentage, progress, cachedPositions,
                   sliderValue, routeProgress, closestVars, editVars, geodesyVars>>

\* getAllAircraft(isAutoRefresh) up to `await fetch`
getAllAircraftStarts(isAutoRefresh) ==
    /\ Len(fetches) < MaxFetches
    /\ intervals' = intervalsAfterClear
    /\ autoRefreshIntervalRef' = <<>>
    /\ IF isAutoRefresh
       THEN UNCHANGED <<flightData, lastKnownPosition, aircraftPosition, lastDrawTime,
                        lastApiCall, error>>
       ELSE /\ aircraftPosition' = <<>>
            /\ flightData' = <<>>
            /\ lastKnownPosition' = <<>>
            /\ lastApiCall' = <<>>
            /\ lastDrawTime' = <<>>
            /\ error' = ""
    /\ trackingAllAircraft' = TRUE
    /\ loading' = TRUE
    /\ fetches' = Append(fetches, [fn |-> "getAllAircraft", refresh |-> isAutoRefresh])
    /\ pc' = "fetching"
    /\ UNCHANGED <<clock, interpolated>>
    /\ UNCHANGED <<waypoints, depTime, duration, percentage, progress, cachedPositions,
                   sliderValue, routeProgress, closestVars, editVars, geodesyVars>>

\* Enter in the flight number input, which is disabled while all aircraft
\* are tracked: trackFlight()
PressEnter ==
    /\ ~trackingAllAircraft
    /\ trackFlightStarts(FALSE)

\* The Track button: trackFlight()
ClickTrack ==
    /\ ~loading /\ ~trackingAllAircraft
    /\ trackFlightStarts(FALSE)

\* The All Aircraft button: getAllAircraft(false)
ClickAllAircraft ==
    /\ ~loading /\ ~trackingAllAircraft
    /\ getAllAircraftStarts(FALSE)

\* handleRefreshClick; the Refresh button is shown with a flight or with all
\* aircraft and is never disabled
ClickRefresh ==
    /\ flightData # <<>> \/ trackingAllAircraft
    /\ IF trackingAllAircraft THEN getAllAircraftStarts(FALSE) ELSE trackFlightStarts(TRUE)

\* A tick of an interval that is set and not cleared: trackFlight(true) or
\* getAllAircraft(true)
AutoRefreshFires ==
    \E i \in intervals :
        IF i.fn = "trackFlight" THEN trackFlightStarts(TRUE) ELSE getAllAircraftStarts(TRUE)

\* The calls awaiting their fetch without the k-th
Answered(k) == SubSeq(fetches, 1, k - 1) \o SubSeq(fetches, k + 1, Len(fetches))

\* trackFlight from the answer on: the flight is among the states received
TrackFlightSucceeds ==
    /\ Cardinality(intervals) < MaxIntervals
    /\ \E k \in 1..Len(fetches) :
         /\ fetches[k].fn = "trackFlight"
         /\ fetches' = Answered(k)
    /\ \E live \in PolledFlights :
         /\ flightData' = <<live>>
         /\ lastKnownPosition' = <<[lat |-> live.latitude, lng |-> live.longitude,
                                    timestamp |-> Num(clock)]>>
         /\ aircraftPosition' = <<[lat |-> live.latitude, lng |-> live.longitude]>>
    /\ lastApiCall' = <<Num(clock)>>
    /\ autoRefreshIntervalRef' = <<newIntervalId>>
    /\ intervals' = intervals \cup {[id |-> newIntervalId, fn |-> "trackFlight"]}
    /\ loading' = FALSE
    /\ pc' = "tracked"
    /\ UNCHANGED <<lastDrawTime, clock, interpolated, error, trackingAllAircraft>>
    /\ UNCHANGED <<waypoints, depTime, duration, percentage, progress, cachedPositions,
                   sliderValue, routeProgress, closestVars, editVars, geodesyVars>>

\* trackFlight from the answer on: the fetch fails, no states are received
\* or the flight is not among them; the catch block runs
TrackFlightFails ==
    /\ \E k \in 1..Len(fetches) :
         /\ fetches[k].fn = "trackFlight"
         /\ fetches' = Answered(k)
         /\ pc' = IF fetches[k].refresh THEN "poll failed" ELSE "track failed"
    /\ error' \in TrackErrors
    /\ intervals' = intervalsAfterClear
    /\ autoRefreshIntervalRef' = <<>>
    /\ loading' = FALSE
    /\ UNCHANGED <<flightData, lastKnownPosition, aircraftPosition, lastDrawTime,
                   lastApiCall, clock, interpolated, trackingAllAircraft>>
    /\ UNCHANGED <<waypoints, depTime, duration, percentage, progress, cachedPositions,
                   sliderValue, routeProgress, closestVars, editVars, geodesyVars>>

\* getAllAircraft from the answer on, states received or none
GetAllAircraftSucceeds ==
    /\ Cardinality(intervals) < MaxIntervals
    /\ \E k \in 1..Len(fetches) :
         /\ fetches[k].fn = "getAllAircraft"
         /\ fetches' = Answered(k)
    /\ lastApiCall' = <<Num(clock)>>
    /\ error' = ""
    /\ autoRefreshIntervalRef' = <<newIntervalId>>
    /\ intervals' = intervals \cup {[id |-> newIntervalId, fn |-> "getAllAircraft"]}
    /\ loading' = FALSE
    /\ pc' = "listed"
    /\ UNCHANGED <<flightData, lastKnownPosition, aircraftPosition, lastDrawTime, clock,
                   interpolated, trackingAllAircraft>>
    /\ UNCHANGED <<waypoints, depTime, duration, percentage, progress, cachedPositions,
                   sliderValue, routeProgress, closestVars, editVars, geodesyVars>>

\* getAllAircraft from the answer on: the fetch fails; the catch block runs
GetAllAircraftFails ==
    /\ \E k \in 1..Len(fetches) :
         /\ fetches[k].fn = "getAllAircraft"
         /\ fetches' = Answered(k)
    /\ error' = "Error fetching aircraft: Failed to fetch aircraft data"
    /\ trackingAllAircraft' = FALSE
    /\ intervals' = intervalsAfterClear
    /\ autoRefreshIntervalRef' = <<>>
    /\ loading' = FALSE
    /\ pc' = "list failed"
    /\ UNCHANGED <<flightData, lastKnownPosition, aircraftPosition, lastDrawTime,
                   lastApiCall, clock, interpolated>>
    /\ UNCHANGED <<waypoints, depTime, duration, percentage, progress, cachedPositions,
                   sliderValue, routeProgress, closestVars, editVars, geodesyVars>>

NextRefresh ==
    \/ PressEnter
    \/ ClickTrack
    \/ ClickAllAircraft
    \/ ClickRefresh
    \/ AutoRefreshFires
    \/ TrackFlightSucceeds
    \/ TrackFlightFails
    \/ GetAllAircraftSucceeds
    \/ GetAllAircraftFails

SpecRefresh == InitRefresh /\ [][NextRefresh]_vars

(***************************************************************************)
(* Vocabulary of the properties.  The duration of a state is read back as  *)
(* the hours and minutes it was formatted from, so that the properties do  *)
(* not depend on the operators that model the code.                        *)
(***************************************************************************)
WellFormed == duration \in WellFormedDurations

HoursMinutes ==
    CHOOSE hm \in (0..MaxHours) \X MinuteValues :
        formatDuration(Num(hm[1]), Num(hm[2])) = duration

\* hours * 60 + minutes of the duration
TotalMinutes == HoursMinutes[1] * 60 + HoursMinutes[2]

\* 10 min / totalDurationMs * 100
TaxiPct == Div(Num(10 * 100), Num(TotalMinutes))

Queried == pc = "queried"
Returned == pc = "queried" /\ progress.kind = "return"
Cached == pc = "cached"

FirstWaypoint == <<waypoints[1].lat, waypoints[1].lon>>
LastWaypoint == <<waypoints[Len(waypoints)].lat, waypoints[Len(waypoints)].lon>>
Origin == <<Num(0), Num(0)>>

\* departure + totalDurationMs * percentage / 100, in milliseconds
ExactTime ==
    Add(DateFromString(depTime),
        Div(Mul(Num(TotalMinutes * 60000), percentage), Num(100)))

(***************************************************************************)
(* C1..C8: calculateRoutePosition.                                         *)
(***************************************************************************)
\* C1: with at least 2 waypoints and a well-formed duration, a query with
\* percentage <= taxiPercentage returns exactly the first waypoint.
C1_TaxiOutPinsFirstWaypoint ==
    (Queried /\ Len(waypoints) >= 2 /\ WellFormed /\ Le(percentage, TaxiPct))
        => (progress.kind = "return" /\ progress.val[1].position = FirstWaypoint)

C1_Witness ==
    /\ Returned /\ Len(waypoints) >= 2 /\ WellFormed
    /\ TotalMinutes > 20
    /\ Gt(percentage, Num(0)) /\ Le(percentage, TaxiPct)
    /\ FirstWaypoint # LastWaypoint
    /\ progress.val[1].position = FirstWaypoint

\* C2 as stated: with at least 2 waypoints and totalDurationMs > 0, a query
\* with percentage >= 100 - taxiPercentage returns exactly the last waypoint.
C2_Original ==
    (Queried /\ Len(waypoints) >= 2 /\ WellFormed /\ TotalMinutes > 0
        /\ Ge(percentage, Sub(Num(100), TaxiPct)))
        => (progress.kind = "return" /\ progress.val[1].position = LastWaypoint)

\* C2 amended: the last waypoint is returned when percentage >= 100 -
\* taxiPercentage and also percentage > taxiPercentage (the taxi-out test
\* is made first).
C2_TaxiInPinsLastWaypoint ==
    (Queried /\ Len(waypoints) >= 2 /\ WellFormed /\ TotalMinutes > 0
        /\ Ge(percentage, Sub(Num(100), TaxiPct)) /\ Gt(percentage, TaxiPct))
        => (progress.kind = "return" /\ progress.val[1].position = LastWaypoint)

C2_Witness ==
    /\ Returned /\ Len(waypoints) >= 2 /\ WellFormed
    /\ Ge(percentage, Sub(Num(100), TaxiPct)) /\ Gt(percentage, TaxiPct)
    /\ Lt(percentage, Num(100))
    /\ FirstWaypoint # LastWaypoint
    /\ progress.val[1].position = LastWaypoint

\* C3 as stated: with at least 2 waypoints and totalDurationMs > 0,
\* percentage 0 returns the first waypoint and percentage 100 the last.
C3_Original ==
    (Queried /\ Len(waypoints) >= 2 /\ WellFormed /\ TotalMinutes > 0)
        => /\ progress.kind = "return"
           /\ percentage = Num(0) => progress.val[1].position = FirstWaypoint
           /\ percentage = Num(100) => progress.val[1].position = LastWaypoint

\* C3 amended: percentage 0 returns the first waypoint; percentage 100
\* returns the last waypoint when totalDurationMs exceeds 10 minutes, and
\* the first waypoint when it does not.
C3_RouteEndpoints ==
    (Queried /\ Len(waypoints) >= 2 /\ WellFormed /\ TotalMinutes > 0)
        => /\ progress.kind = "return"
           /\ percentage = Num(0) => progress.val[1].position = FirstWaypoint
           /\ percentage = Num(100) =>
                 progress.val[1].position =
                     IF TotalMinutes > 10 THEN LastWaypoint ELSE FirstWaypoint

C3_Witness ==
    /\ Returned /\ Len(waypoints) = 2 /\ WellFormed
    /\ HoursMinutes = <<1, 0>>
    /\ percentage = Num(100)
    /\ FirstWaypoint # LastWaypoint
    /\ progress.val[1].position = LastWaypoint

\* The linear interpolation C4 names, for the queried percentage
C4_Expected ==
    LET adjusted == Mul(Div(Sub(percentage, TaxiPct),
                            Sub(Num(100), Mul(Num(2), TaxiPct))), Num(100))
        segmentFloat == Div(Mul(adjusted, Num(Len(waypoints) - 1)), Num(100))
        k == Floor(segmentFloat)
        fraction == Sub(segmentFloat, k)
        a == waypoints[IntValue(k) + 1]
        b == waypoints[IntValue(k) + 2]
    IN  <<Add(a.lat, Mul(Sub(b.lat, a.lat), fraction)),
          Add(a.lon, Mul(Sub(b.lon, a.lon), fraction))>>

\* C4: for taxiPercentage < percentage < 100 - taxiPercentage the position
\* is the linear interpolation between waypoints[k] and waypoints[k+1].
C4_FlightPhaseInterpolation ==
    (Queried /\ Len(waypoints) >= 2 /\ WellFormed
        /\ Gt(percentage, TaxiPct) /\ Lt(percentage, Sub(Num(100), TaxiPct)))
        => (progress.kind = "return" /\ progress.val[1].position = C4_Expected)

C4_Witness ==
    /\ Returned
    /\ waypoints = <<[lat |-> Num(0), lon |-> Num(0)], [lat |-> Num(0), lon |-> Num(10)]>>
    /\ HoursMinutes = <<2, 0>>
    /\ percentage = Num(50)
    /\ progress.val[1].position = <<Num(0), Num(5)>>

\* C5 as stated: with at least 2 waypoints the returned time equals
\* departure + totalDurationMs * percentage / 100.
C5_Original ==
    (Queried /\ Len(waypoints) >= 2 /\ WellFormed /\ depTime # <<>>)
        => (progress.kind = "return" /\ progress.val[1].currentTime = ExactTime)

\* C5 amended: the returned time is departure + totalDurationMs * percentage
\* / 100 with the fraction of a millisecond dropped, whatever the phase.
C5_TimeFromUnadjustedPercentage ==
    (Queried /\ Len(waypoints) >= 2 /\ WellFormed /\ depTime # <<>>)
        => /\ progress.kind = "return"
           /\ IsInteger(progress.val[1].currentTime)
           /\ Le(progress.val[1].currentTime, ExactTime)
           /\ Lt(Sub(ExactTime, progress.val[1].currentTime), Num(1))

C5_Witness ==
    /\ Returned /\ Len(waypoints) >= 2 /\ WellFormed /\ depTime # <<>>
    /\ HoursMinutes = <<2, 0>> /\ percentage = Num(50)
    /\ progress.val[1].currentTime = Add(DateFromString(depTime), Num(3600000))

Poisoned(r) ==
    \/ IsNaN(r.position[1]) \/ IsNaN(r.position[2])
    \/ IsNaN(r.currentTime) \/ IsNaN(r.percentage)

ZeroDuration == formatDuration(Num(0), Num(0))

C8_NeverThrows == Queried => progress.kind = "return"

(***************************************************************************)
(* C9, C10: calculateRoutePositions.                                       *)
(***************************************************************************)
\* totalDurationMs of the cache, in minutes, and ceil(totalDurationMs / 5min)
CacheMinutes == TotalMinutes + 20
CeilSteps == (CacheMinutes + 4) \div 5

\* C9: a non-empty waypoint list and a well-formed duration store
\* ceil(totalDurationMs / 5min) + 1 samples when the last index's percentage
\* is <= 100, and one fewer otherwise.
C9_SampleCount ==
    (Cached /\ Len(waypoints) >= 1 /\ WellFormed)
        => Len(cachedPositions) =
               IF CeilSteps * 5 * 100 <= 100 * CacheMinutes
               THEN CeilSteps + 1 ELSE CeilSteps

C9_Witness ==
    /\ Cached /\ Len(waypoints) >= 1 /\ WellFormed
    /\ CacheMinutes % 5 # 0
    /\ Len(cachedPositions) = CeilSteps

\* The percentage i * 5min * 100 / totalDurationMs
C10_Percentage(i) == Div(Num(i * 5 * 100), Num(CacheMinutes))

\* The stored percentages are exact, strictly ascending, start at 0 and do
\* not exceed 100
C10_Exact ==
    /\ \A j \in 1..Len(cachedPositions) :
           /\ cachedPositions[j].percentage = C10_Percentage(j - 1)
           /\ Le(cachedPositions[j].percentage, Num(100))
    /\ \A j \in 1..(Len(cachedPositions) - 1) :
           Lt(cachedPositions[j].percentage, cachedPositions[j + 1].percentage)
    /\ Len(cachedPositions) >= 1 /\ cachedPositions[1].percentage = Num(0)

\* C10 as stated: for every plan with a non-empty waypoint list the i-th
\* sample has percentage i * 5min * 100 / totalDurationMs.
C10_Original ==
    (Cached /\ Len(waypoints) >= 1 /\ WellFormed) => C10_Exact

\* C10 amended: the same for every plan with at least 2 waypoints; with
\* exactly one waypoint every stored percentage is 0.
C10_CachePercentages ==
    /\ (Cached /\ Len(waypoints) >= 2 /\ WellFormed) => C10_Exact
    /\ (Cached /\ Len(waypoints) = 1 /\ WellFormed) =>
           \A j \in 1..Len(cachedPositions) : cachedPositions[j].percentage = Num(0)

C10_Witness ==
    /\ Cached /\ Len(waypoints) >= 2 /\ WellFormed
    /\ Len(cachedPositions) >= 3
    /\ Lt(cachedPositions[Len(cachedPositions)].percentage, Num(100))
    /\ C10_Exact

\* C11: every pair of consecutive stored samples is exactly 5 minutes of
\* wall-clock time apart (stated for the plans that have a route and a valid
\* departure time, where the sample times are those of the flight).
C11_TimeSpacing ==
    (Cached /\ WellFormed /\ Len(waypoints) >= 2 /\ depTime # <<>>) =>
        \A j \in 1..(Len(cachedPositions) - 1) :
            Sub(cachedPositions[j + 1].currentTime, cachedPositions[j].currentTime)
                = Num(INTERVAL)

(***************************************************************************)
(* C12..C16: findClosestPosition.                                          *)
(***************************************************************************)
Found == pc = "found"
NumSamples == Len(cachedPositions)
PercentageAt(j) == cachedPositions[j].percentage
DistanceAt(j) == MathAbs(Sub(PercentageAt(j), query))

\* The target lies strictly between samples j and j + 1
Between(j) == Lt(PercentageAt(j), query) /\ Lt(query, PercentageAt(j + 1))

\* ... and is equally far from both
Tie(j) == Between(j) /\ DistanceAt(j) = DistanceAt(j + 1)

C13_NearestMatch ==
    (Found /\ NumSamples >= 1) =>
        /\ closest.val # <<>>
        /\ \E k \in 1..NumSamples : closest.val = <<cachedPositions[k]>>
        /\ \A j \in 1..NumSamples :
               Le(MathAbs(Sub(closest.val[1].percentage, query)), DistanceAt(j))

C13_Witness ==
    /\ Found /\ NumSamples >= 3
    /\ \E j \in 1..(NumSamples - 1) :
           /\ Between(j)
           /\ Lt(DistanceAt(j + 1), DistanceAt(j))
           /\ closest.val = <<cachedPositions[j + 1]>>

\* C14: a target equal to the percentage of a stored sample returns that
\* sample.
C14_ExactMatch ==
    Found => \A j \in 1..NumSamples :
                 PercentageAt(j) = query => closest.val = <<cachedPositions[j]>>

C14_Witness ==
    /\ Found /\ NumSamples >= 3
    /\ \E j \in 2..(NumSamples - 1) :
           PercentageAt(j) = query /\ closest.val = <<cachedPositions[j]>>

\* C15: a target <= the first percentage returns the first sample and a
\* target >= the last percentage returns the last sample.
C15_Boundaries ==
    (Found /\ NumSamples >= 1) =>
        /\ Le(query, PercentageAt(1)) => closest.val = <<cachedPositions[1]>>
        /\ Ge(query, PercentageAt(NumSamples))
              => closest.val = <<cachedPositions[NumSamples]>>

C15_Witness ==
    /\ Found /\ NumSamples >= 2
    /\ Gt(query, PercentageAt(NumSamples))
    /\ closest.val = <<cachedPositions[NumSamples]>>

\* C16: the result is null exactly when the sequence is empty; on a
\* non-empty sequence the loop ends within as many iterations as there are
\* samples and a sample is returned.
C16_NullIffEmpty ==
    Found =>
        /\ closest.val = <<>> <=> NumSamples = 0
        /\ searchIterations(cachedPositions, query) <= NumSamples

C16_Witness ==
    /\ Found /\ NumSamples >= 3
    /\ \E j \in 1..(NumSamples - 1) : Between(j)
    /\ searchIterations(cachedPositions, query) >= 2
    /\ closest.val # <<>>

(***************************************************************************)
(* C17: freshness of the cache.                                            *)
(***************************************************************************)
\* The samples calculateRoutePositions builds from the current departure
\* time and the plan's current duration
BuiltFromCurrent ==
    IF duration = <<>> \/ Len(waypoints) = 0 THEN <<>>
    ELSE routePositions(waypoints, departureTime, duration).positions

\* C17: with a plan loaded, after any edits of the two time inputs the
\* stored samples are those built from the current departure time and the
\* current duration.
C17_CacheFresh == pc = "loaded" => cachedPositions = BuiltFromCurrent

\* The flight of the last poll, and whether extrapolation is to be skipped for it
Tracked == flightData # <<>> /\ lastKnownPosition # <<>> /\ aircraftPosition # <<>>
Live == flightData[1]
OnGroundOrSlow == Live.is_ground \/ Lt(Live.speed_horizontal, Num(50))
PolledFix == [lat |-> Live.latitude, lng |-> Live.longitude, timestamp |-> lastApiCall[1]]

\* C18: while the tracked flight is on the ground or slower than 50 km/h, a
\* tick of the 5-second map timer and a tick of the 100 ms distance timer
\* leave the last known position, the displayed aircraft position and the
\* flight unchanged; the map tick refreshes the draw timestamp and nothing
\* else, the distance tick changes nothing.  Hence after any number of ticks
\* both positions are still those of the last poll.
C18_GatedTicksKeepPosition ==
    /\ [](Tracked /\ OnGroundOrSlow =>
            /\ lastKnownPosition = <<PolledFix>>
            /\ aircraftPosition = <<[lat |-> Live.latitude, lng |-> Live.longitude]>>)
    /\ [][Tracked /\ OnGroundOrSlow /\ UpdateInterpolatedPosition =>
            /\ UNCHANGED <<flightData, lastKnownPosition, aircraftPosition, lastApiCall>>
            /\ lastDrawTime' = <<Num(clock)>>]_vars
    /\ [][Tracked /\ OnGroundOrSlow /\ DistanceInterpolationTick =>
            UNCHANGED trackerVars]_vars

\* A flight on the ground at 900 km/h whose map has ticked after the poll
C18_Witness ==
    /\ Tracked /\ Live.is_ground /\ Live.speed_horizontal = Num(900)
    /\ lastDrawTime # <<>> /\ Gt(lastDrawTime[1], lastApiCall[1])
    /\ lastKnownPosition = <<PolledFix>>

\* The kilometres a latitude has been moved from the point it started at, that
\* point's latitude, and the number of moves
RECURSIVE TotalDistance(_)
TotalDistance(c) ==
    IF c.k = "moved" THEN Add(c.dist, TotalDistance(c.from.lat)) ELSE Num(0)

RECURSIVE StartLatitude(_)
StartLatitude(c) == IF c.k = "moved" THEN StartLatitude(c.from.lat) ELSE c

RECURSIVE Legs(_)
Legs(c) == IF c.k = "moved" THEN 1 + Legs(c.from.lat) ELSE 0

Fix == lastKnownPosition[1]
Airborne == ~OnGroundOrSlow

\* C19: an extrapolation tick of a flight that is neither on the ground nor
\* slower than 50 km/h moves the fix by speed * (now - fix.timestamp) / 3600000
\* km along the flight's direction, stamps the new fix with now and keeps
\* the flight's speed, direction and is_ground; hence between two polls the
\* fix has been moved from the polled position by speed times the time from
\* the poll to the fix's timestamp in all.
C19_DeadReckoning ==
    /\ [](Tracked /\ Airborne =>
            /\ StartLatitude(Fix.lat) = Live.latitude
            /\ TotalDistance(Fix.lat) =
                   Div(Mul(Live.speed_horizontal, Sub(Fix.timestamp, lastApiCall[1])),
                       Num(3600000)))
    /\ [][Tracked /\ Airborne /\ UpdateInterpolatedPosition =>
            /\ UNCHANGED <<flightData, lastApiCall>>
            /\ lastKnownPosition'[1].timestamp = Num(clock)
            /\ TotalDistance(lastKnownPosition'[1].lat) =
                   Add(TotalDistance(Fix.lat),
                       Div(Mul(Live.speed_horizontal, Sub(Num(clock), Fix.timestamp)),
                           Num(3600000)))
            /\ Gt(Num(clock), Fix.timestamp) =>
                   /\ lastKnownPosition'[1].lat.k = "moved"
                   /\ lastKnownPosition'[1].lat.from = [lat |-> Fix.lat, lng |-> Fix.lng]
                   /\ lastKnownPosition'[1].lat.heading = Live.direction
            /\ aircraftPosition' = <<[lat |-> lastKnownPosition'[1].lat,
                                       lng |-> lastKnownPosition'[1].lng]>>]_vars

\* A fix moved twice since the poll
C19_Witness ==
    /\ Tracked /\ Airborne
    /\ Legs(Fix.lat) >= 2
    /\ Gt(TotalDistance(Fix.lat), Fix.lat.dist)

\* The call of calculateInterpolatedPosition that has been made
Called == pc = "called" /\ interpolated # <<>>
Call == interpolated[1]
ZeroDistance == Call.speed = Num(0) \/ Call.now = Call.startPos.timestamp

Computed == pc = "computed" /\ timezones.dep # <<>> /\ timezones.arr # <<>>
ParsedDuration == parseDuration(duration)
ElapsedMs == durationMsOf(departureTime, arrivalTime, timezones.dep, timezones.arr)

\* C21: every duration calculateDuration produces for a departure time, an
\* arrival time and two airport timezones parses back to hours that are a
\* non-negative integer and minutes that are an integer in [0, 59], with
\* hours * 60 + minutes equal to the elapsed minutes (to the nearest minute).
C21_DurationInvariant ==
    Computed =>
        /\ IsInteger(ParsedDuration.hours) /\ Ge(ParsedDuration.hours, Num(0))
        /\ IsInteger(ParsedDuration.minutes)
        /\ Ge(ParsedDuration.minutes, Num(0)) /\ Le(ParsedDuration.minutes, Num(59))
        /\ Add(Mul(ParsedDuration.hours, Num(60)), ParsedDuration.minutes)
               = MathRound(Div(ElapsedMs, Num(60000)))

\* The elapsed time between the two local times taken to UTC by convertToUTC
UtcElapsedMs ==
    Sub(convertToUTC(DateFromString(arrivalTime), timezones.arr[1]),
        convertToUTC(DateFromString(departureTime), timezones.dep[1]))
WholeMinutes == Len(departureTime) = 1 /\ Len(arrivalTime) = 1

\* C28: for whole-minute local times whose elapsed time is not negative, the
\* duration calculateDuration returns is the difference between
\* convertToUTC(arrival, arrivalTimezone) and convertToUTC(departure,
\* departureTimezone).
C28_DurationIsUtcDifference ==
    Computed /\ WholeMinutes /\ Ge(ElapsedMs, Num(0)) /\ Ge(UtcElapsedMs, Num(0)) =>
        Add(Mul(ParsedDuration.hours, Num(3600000)), Mul(ParsedDuration.minutes, Num(60000)))
            = UtcElapsedMs

\* The call of calculateDistance that has been made
DistanceCalled == geodesy # <<>> /\ geodesy[1].fn = "calculateDistance"
Geo == geodesy[1]

\* C22: calculateDistance(a, b) equals calculateDistance(b, a) for all points
\* a and b.
C22_HaversineSymmetry ==
    DistanceCalled =>
        Geo.result = calculateDistance(Geo.b.lat, Geo.b.lng, Geo.a.lat, Geo.a.lng)

\* Two points that differ in latitude and in longitude, the first one south and
\* east of the second
C22_Witness ==
    /\ DistanceCalled
    /\ Lt(Geo.a.lat, Geo.b.lat) /\ Gt(Geo.a.lng, Geo.b.lng)
    /\ Geo.a.lat # Num(-90) /\ Geo.b.lat # Num(0)
    /\ Geo.result # Num(0)

\* C23: calculateDistance(a, a) is exactly 0 for every point a.
C23_HaversineIdentity ==
    DistanceCalled /\ Geo.a = Geo.b => Geo.result = Num(0)

\* The distance from a point of latitude 60 and longitude -73.78 to itself
C23_Witness ==
    /\ DistanceCalled
    /\ Geo.a = Geo.b /\ Geo.a = [lat |-> Num(60), lng |-> Rat(-7378, 100)]
    /\ Geo.result = Num(0)

\* The call of calculateBearing that has been made
BearingCalled == geodesy # <<>> /\ geodesy[1].fn = "calculateBearing"

\* C24: calculateBearing returns a value b with 0 <= b < 360 for every pair of
\* points (stated for the results the model knows as numbers).
C24_BearingRange ==
    BearingCalled /\ IsRational(Geo.result) =>
        Geo.result.n >= 0 /\ (Tiny(Geo.result) \/ Lt(Geo.result, Num(360)))

\* The call of calculateInterpolatedPosition that has been made
PositionCalled == geodesy # <<>> /\ geodesy[1].fn = "calculateInterpolatedPosition"

\* A longitude known to lie outside [-180, 180].  With 57 < 180 / PI < 58, an
\* angle of deg degrees plus rad radians is more than deg + 57 * rad degrees
\* when rad > 0 and less than deg + 57 * rad degrees when rad < 0; an arc is
\* shorter than 3 radians, so it crosses only from its own side.
BeyondAntimeridian(x) ==
    IF IsRational(x) THEN Lt(x, Num(-180)) \/ Gt(x, Num(180))
    ELSE /\ x.k = "turned"
         /\ \/ /\ x.rad.n > 0 /\ x.deg.n > 0
               /\ Ge(Mul(Num(57), x.rad), Sub(Num(180), x.deg))
            \/ /\ x.rad.n < 0 /\ x.deg.n < 0
               /\ Le(Mul(Num(57), x.rad), Sub(Num(-180), x.deg))

\* C27: the longitude returned by calculateInterpolatedPosition for an origin
\* with longitude in [-180, 180] lies in [-180, 180].
C27_LongitudeStaysValid ==
    PositionCalled => ~BeyondAntimeridian(Geo.result.lng)

\* The waypoint indices read by the query that has been made
Reads ==
    waypointReads(waypoints, adjustedPercentage(percentage, totalDurationMs(duration)))

\* C25: with at least 2 waypoints, a well-formed duration of more than 0
\* minutes (20 minutes or less included) and a percentage in [0, 100],
\* calculateRoutePosition reads waypoints[i] only for integers i in
\* 0..waypoints.length - 1, and so returns.
C25_ReadsInRange ==
    (Queried /\ Len(waypoints) >= 2 /\ WellFormed /\ TotalMinutes > 0
        /\ Ge(percentage, Num(0)) /\ Le(percentage, Num(100)))
        => /\ \A i \in Reads : IsInteger(i) /\ i.n >= 0 /\ IntValue(i) <= Len(waypoints) - 1
           /\ progress.kind = "return"

\* A 15-minute flight on a route of 3 or more waypoints queried at 75 %: the
\* last waypoint is the only one read
C25_Witness ==
    /\ Returned /\ Len(waypoints) >= 3
    /\ HoursMinutes = <<0, 15>>
    /\ percentage = Num(75)
    /\ Reads = {Num(Len(waypoints) - 1)}
    /\ progress.val[1].position = LastWaypoint

\* The segment and the progress within it that the code computes for a
\* percentage p of a flight of total milliseconds on the queried route
RoutePoint(p, total) == segmentPosition(waypoints, adjustedPercentage(p, total))

\* Route point a is not after route point b
NotAfterPoint(a, b) ==
    \/ Lt(a.currentSegment, b.currentSegment)
    \/ a.currentSegment = b.currentSegment /\ Le(a.segmentProgress, b.segmentProgress)

\* The place on the route of a route point
PlaceOf(rp) ==
    IF IntValue(rp.currentSegment) = Len(waypoints) - 1 THEN LastWaypoint
    ELSE LET a == waypoints[IntValue(rp.currentSegment) + 1]
             b == waypoints[IntValue(rp.currentSegment) + 2]
         IN  <<Add(a.lat, Mul(Sub(b.lat, a.lat), rp.segmentProgress)),
               Add(a.lon, Mul(Sub(b.lon, a.lon), rp.segmentProgress))>>

\* The route point of the queried percentage is not before that of a smaller
\* percentage and is the place of the returned position
MonotoneUpTo(rp2, total) ==
    /\ \A p1 \in Percentages : Le(p1, percentage) => NotAfterPoint(RoutePoint(p1, total), rp2)
    /\ progress.val[1].position = PlaceOf(rp2)

\* C26: for a route of at least 2 waypoints and a well-formed duration of more
\* than 0 minutes, the route point (segment, progress within the segment) of
\* every percentage p1 <= p2 is not after the route point of p2, p2 being the
\* queried percentage; the returned position is the place of that route point.
C26_ProgressMonotone ==
    (Queried /\ Len(waypoints) >= 2 /\ WellFormed /\ TotalMinutes > 0)
        => /\ progress.kind = "return"
           /\ Const(totalDurationMs(duration), LAMBDA total :
                  MonotoneUpTo(RoutePoint(percentage, total), total))

\* A 2-hour flight over 3 waypoints queried at 50 %, the start of the second
\* segment; at 25 % it is 2/5 of the way along the first
C26_Witness ==
    /\ Returned /\ Len(waypoints) = 3
    /\ HoursMinutes = <<2, 0>>
    /\ percentage = Num(50)
    /\ RoutePoint(Num(25), Num(7200000)) =
           [currentSegment |-> Num(0), segmentProgress |-> Rat(2, 5)]
    /\ RoutePoint(percentage, Num(7200000)) =
           [currentSegment |-> Num(1), segmentProgress |-> Num(0)]
    /\ progress.val[1].position = <<waypoints[2].lat, waypoints[2].lon>>

\* C29: at most one auto-refresh interval is set and not cleared, and it is
\* the one autoRefreshIntervalRef holds.
C29_SingleAutoRefreshTimer ==
    /\ Cardinality(intervals) <= 1
    /\ \A i \in intervals : autoRefreshIntervalRef = <<i.id>>

\* The step in which a call trackFlight(true) ends in its catch block
PollFails == Len(fetches') < Len(fetches) /\ pc' = "poll failed"

\* C30: the step in which an auto-refresh poll trackFlight(true) fails or does
\* not find the flight leaves the flight data and the last known position as
\* they were, sets an error message and leaves no auto-refresh interval set.
C30_FailedPollKeepsState ==
    [][PollFails => /\ flightData' = flightData
                    /\ lastKnownPosition' = lastKnownPosition
                    /\ error' # ""
                    /\ intervals' = {}]_vars

====
